---- MODULE Spec2Model ----
(***************************************************************************)
(* Verification model of the plfanzen backend: the manager's instance      *)
(* lifecycle (crates/manager/src/instances.rs), safe-pack export           *)
(* (repo/challenges/dir_packer.rs), repository sync (repo/git.rs), the     *)
(* StartChallengeInstance RPC with deploy_challenge (grpc/challenges.rs,   *)
(* instances/deploy.rs) and the SSH gateway's password authentication      *)
(* (crates/ssh-gateway/src/gateway.rs, controller.rs).                     *)
(***************************************************************************)
EXTENDS Integers, Sequences, FiniteSets, TLC

VARIABLES
    ns,        \* cluster namespaces: name -> [labels, deletion_timestamp, phase, pods]
    pc,        \* per task: position inside prepare_instance
    local,     \* per task: (challenge_id, actor_id) of the prepare call in flight
    ret,       \* per task: result of the last finished call
    packDir,   \* safe-pack: the rendered directory, path -> [kind, content]
    packIgnored, \* safe-pack: the paths the .plfignore rules exclude
    packLeft,  \* safe-pack: the paths the walker has not yielded yet
    archive,   \* safe-pack: the tar entries appended so far
    packState, \* safe-pack: "walking", "done" (Ok) or "failed" (Err)
    dest,      \* sync: the repository directory
    temp,      \* sync: what the temp dir's repo/ holds
    syncPc,    \* sync: position inside sync_repo
    syncRet,   \* sync: result of the last finished sync_repo
    before,    \* sync: the repository directory as the running call found it
    saw,       \* sync: what a concurrent reader of the directory saw last
    backends,  \* gateway: the BackendRegistry, login name -> BackendConfig
    conn,      \* gateway: per connection, the GatewayHandler's fields
    gwLast,    \* gateway: the handler call that ran last and its result
    startPc,   \* start: position inside start_challenge_instance
    req,       \* start: the request being served and the clock it read
    startRet,  \* start: the status the last start request ended with
    plan,      \* start: per kind, the objects deploy_challenge has yet to create
    created,   \* start: the objects this request has created, in order
    failed,    \* start: the object whose creation failed, if any
    stopPc,    \* stop: position inside stop_challenge_instance
    stopCall,  \* stop: the request, the listed instances and the loop over them
    stopRet,   \* stop: the status the last stop request ended with
    gateways,  \* the SSHGateway custom resources in the cluster
    backendSvcs, \* the backend Services that exist in the cluster
    pipeMode,  \* which pump the session runs: None, "Piping" or "TcpPiping"
    tx,        \* handler.client_to_backend_tx is Some
    rx,        \* chunks queued in the mpsc channel, oldest first
    received,  \* every chunk the data callback was called with (history)
    backendIn, \* chunks handed to backend_channel.data, in order (history)
    produced,  \* messages the backend channel produced, in order (history)
    taken,     \* how many of them backend_channel.wait() has returned
    clientOut, \* calls made on the client's session handle, in order (history)
    pump,      \* the spawned task: "none", "running" or "done"
    clientChan,\* the client's channel: "open" or "closed"
    backendChan,\* the backend's channel: "open" or "closed"
    clientEof, \* the client has sent EOF
    checkPc,   \* check_flag: "idle" or "loop"
    checkCall, \* its request, the challenges it loaded and its loop's progress
    checkRet,  \* what the last check_flag returned
    solves,    \* rows of table solves
    invalid_submissions,\* rows of table invalid_submissions
    submissions,\* the submit_flag calls made so far (history)
    submitRepo, \* the challenges of the repository and their validators
    listRet,   \* what the last get_instances returned, and for which pair
    retrCall,  \* the last retrieve_file request and the challenge it found
    retrRet,   \* what it returned
    retrReads, \* the files of the working directory it read
    renFs,     \* the file system render_dir_recursively walks
    renStack,  \* its recursion: one frame per directory being walked
    renChecked,\* the paths whose containment it has tested
    renReads,  \* what it has read, with what held at the time (history)
    renWrites, \* the paths it has written or created
    renRet,    \* its result: None, "Ok" or "Err"
    jwtToken,  \* the token handed to parse_and_validate_jwt, split at the dots
    jwtKey,    \* the verifying key it is checked against
    jwtInner,  \* the payload type T asked for
    jwtNow,    \* the clock, in seconds
    jwtRet,    \* the result of the last call, with the time it was made at
    chanBackend,\* per client channel of one connection: the backend channel its pump serves
    handlerTx, \* client_to_backend_tx of the handler: the pump that holds its receiver
    chanEof,   \* the client channels that have sent EOF
    forwarded, \* the data the client has sent, with the pump each piece went to (history)
    svcPorts,  \* the ports of the compose service of the instance, long form
    connInfo,  \* the connection info StartChallengeInstance returned, entry by entry
    routes,    \* the routes of the IngressRoute and IngressRouteTCP emitted for the instance
    sshCRs,    \* the SSHGateway resources in the instance namespace, by name
    backendRegistry,  \* the BackendRegistry of the gateway: login name to backend
    reconciled,\* the resources the controller has reconciled since they were applied
    loginRet,  \* the last login at the gateway and its answer
    svcVolumes,\* the volumes of the compose service, long form
    topVolumes,\* the top-level volumes of the compose document, by name
    volRet,    \* what deploy_challenge made of them: the pod volumes and the claims
    sessRow,   \* the row of one session in the sessions table: none, or its session_token
    freshToken,\* the next value of uuid::Uuid::now_v7()
    issued,    \* the refresh tokens handed to the client, by their jti
    refPc,     \* per request task: where its refresh_session stands
    refArg,    \* per request task: the jti of the token it was called with
    refRet,    \* per request task: the result of its last call
    spent,     \* the tokens a refresh_session or an end_session has succeeded with
    wins,      \* the refresh_session calls that succeeded (history)
    splitIn,   \* the input of split_with_quotes, char by char
    splitOut   \* its output, once it has run

instVars == <<ns, pc, local, ret>>

packVars == <<packDir, packIgnored, packLeft, archive, packState>>

syncVars == <<dest, temp, syncPc, syncRet, before, saw>>

gwVars == <<backends, conn, gwLast>>

startVars == <<startPc, req, startRet, plan, created, failed>>

stopVars == <<stopPc, stopCall, stopRet>>

ctlVars == <<gateways, backendSvcs>>

pipeVars == <<pipeMode, tx, rx, received, backendIn, produced, taken, clientOut, pump, clientChan, backendChan, clientEof>>

checkVars == <<checkPc, checkCall, checkRet>>

submitVars == <<solves, invalid_submissions, submissions, submitRepo>>

listVars == <<listRet>>

retrVars == <<retrCall, retrRet, retrReads>>

renVars == <<renFs, renStack, renChecked, renReads, renWrites, renRet>>

jwtVars == <<jwtToken, jwtKey, jwtInner, jwtNow, jwtRet>>

muxVars == <<chanBackend, handlerTx, chanEof, forwarded>>

portsVars == <<svcPorts, connInfo, routes, sshCRs, backendRegistry, reconciled, loginRet>>

volVars == <<svcVolumes, topVolumes, volRet>>

sessVars == <<sessRow, freshToken, issued, refPc, refArg, refRet, spent, wins>>

splitVars == <<splitIn, splitOut>>

----------------------------------------------------------------------------
(* Bounds of the instance-manager model *)

\* number of distinct 12-hex suffixes the random draw can produce
NumSuffixes == 5

Suffixes == 1..NumSuffixes

\* concurrent RPC tasks calling into the instance manager
Procs == {1, 2}

Challenges == {"chall"}

Actors == {"user-a", "user-b"}

\* the actors whose prepare calls are explored
Starters == {"user-a"}

None == "None"

NoCall == [challenge_id |-> None, actor_id |-> None]

----------------------------------------------------------------------------
(* Strings that the code builds with format! are sequences of tokens *)

IsPrefix(p, s) == Len(p) <= Len(s) /\ SubSeq(s, 1, Len(p)) = p

\* str::strip_prefix(..).unwrap_or(&name)
strip_prefix_or(name, prefix) ==
    IF IsPrefix(prefix, name) THEN SubSeq(name, Len(prefix) + 1, Len(name)) ELSE name

\* format!("challenge-{}-instance-{}", challenge_id, instance_id)
instance_ns_name(challenge_id, instance_id) ==
    <<"challenge", challenge_id, "instance">> \o instance_id

\* format!("challenge-{}-actor-{}-instance-", challenge_id, actor_id)
actor_prefix(challenge_id, actor_id) ==
    <<"challenge", challenge_id, "actor", actor_id, "instance">>

\* the 12 hex digits drawn by prepare_instance, one token per possible draw
HexTokens == <<"0a", "1b", "2c", "3d", "4e", "5f", "60", "71", "82", "93">>

instance_suffix(s) == <<HexTokens[s]>>

NsNames == {instance_ns_name(c, instance_suffix(s)) : c \in Challenges, s \in Suffixes}

----------------------------------------------------------------------------
(* Cluster state read by the instance manager *)

MaxInstances == 5

Label(n, key) == IF key \in DOMAIN ns[n].labels THEN ns[n].labels[key] ELSE None

\* pods listed in a namespace; a namespace that does not exist lists none
PodsIn(name) == IF name \in DOMAIN ns THEN ns[name].pods ELSE <<>>

\* the pod test that looks at no phase
is_instance_running_AnyPhase(challenge_id, instance_id) ==
    PodsIn(instance_ns_name(challenge_id, instance_id)) # <<>>

is_instance_running(challenge_id, instance_id) ==
    LET pod_list == PodsIn(instance_ns_name(challenge_id, instance_id))
    IN  /\ pod_list # <<>>
        /\ \A i \in 1..Len(pod_list) : pod_list[i] \in {"Running", "Succeeded"}

\* the namespaces selected by the label selector challenge_id=..,actor_id=..
ListedNs(challenge_id, actor_id) ==
    {n \in DOMAIN ns : /\ Label(n, "challenge_id") = challenge_id
                       /\ Label(n, "actor_id") = actor_id}

InstanceStateOf(challenge_id, n) ==
    IF ns[n].deletion_timestamp \/ ns[n].phase = "Terminating"
    THEN "Terminating"
    ELSE IF is_instance_running(challenge_id,
                strip_prefix_or(n, <<"challenge", challenge_id, "instance">>))
         THEN "Running"
         ELSE "Creating"

InstanceKey(challenge_id, actor_id, n) ==
    strip_prefix_or(n, actor_prefix(challenge_id, actor_id))

\* HashMap<String, InstanceState> returned by get_instances
get_instances(challenge_id, actor_id) ==
    LET listed == ListedNs(challenge_id, actor_id)
        keys   == {InstanceKey(challenge_id, actor_id, n) : n \in listed}
    IN  [k \in keys |->
            InstanceStateOf(challenge_id,
                CHOOSE n \in listed : InstanceKey(challenge_id, actor_id, n) = k)]

\* the quota test off by one
TooManyInstances_OffByOne(instances) == Cardinality(DOMAIN instances) > MaxInstances

TooManyInstances(instances) == Cardinality(DOMAIN instances) >= MaxInstances

\* the activity test that forgets Creating
AnyActive_RunningOnly(instances) ==
    \E k \in DOMAIN instances : instances[k] = "Running"

AnyActive(instances) ==
    \E k \in DOMAIN instances : instances[k] \in {"Running", "Creating"}

NewNamespace(challenge_id, actor_id) ==
    [labels |-> [challenge_id |-> challenge_id, actor_id |-> actor_id],
     deletion_timestamp |-> FALSE,
     phase |-> "Active",
     pods |-> <<>>]

----------------------------------------------------------------------------
(* prepare_instance: list, check, then the draw/get_opt/create loop *)

PrepareList(p, c, a) ==
    /\ pc[p] = "idle"
    /\ LET instances == get_instances(c, a)
       IN  IF TooManyInstances(instances)
           THEN /\ ret' = [ret EXCEPT ![p] = "QuotaExceeded"]
                /\ UNCHANGED <<pc, local>>
           ELSE IF AnyActive(instances)
           THEN /\ ret' = [ret EXCEPT ![p] = "AlreadyActive"]
                /\ UNCHANGED <<pc, local>>
           ELSE /\ pc' = [pc EXCEPT ![p] = "loop"]
                /\ local' = [local EXCEPT ![p] =
                       [challenge_id |-> c, actor_id |-> a]]
                /\ ret' = [ret EXCEPT ![p] = None]
    /\ UNCHANGED ns

\* one iteration of the loop: draw a suffix, api.get_opt, api.create.  A name that
\* exists is seen either by get_opt (`continue`) or, when it appeared after get_opt,
\* by create (the API server refuses it and `?` returns the error).
PrepareCreate(p, s) ==
    /\ pc[p] = "loop"
    /\ LET instance_name == instance_ns_name(local[p].challenge_id, instance_suffix(s))
       IN  IF instance_name \in DOMAIN ns
           THEN \/ UNCHANGED <<ns, pc, local, ret>>
                \/ /\ ret' = [ret EXCEPT ![p] = "ApiError"]
                   /\ pc' = [pc EXCEPT ![p] = "idle"]
                   /\ local' = [local EXCEPT ![p] = NoCall]
                   /\ UNCHANGED ns
           ELSE /\ ns' = (instance_name :>
                            NewNamespace(local[p].challenge_id, local[p].actor_id)) @@ ns
                /\ ret' = [ret EXCEPT ![p] = "Ok"]
                /\ pc' = [pc EXCEPT ![p] = "idle"]
                /\ local' = [local EXCEPT ![p] = NoCall]

----------------------------------------------------------------------------
(* delete_instance *)

\* the ownership test that only asks for some actor_id label
LabelMatches_AnyOwner(name, actor_id) == Label(name, "actor_id") # None

LabelMatches(name, actor_id) == Label(name, "actor_id") = actor_id

DeleteInstance(p, c, a, instance_id) ==
    /\ pc[p] = "idle"
    /\ LET instance_ns == instance_ns_name(c, instance_id)
       IN  IF instance_ns \notin DOMAIN ns
           THEN /\ ret' = [ret EXCEPT ![p] = "ApiError"]
                /\ UNCHANGED ns
           ELSE IF ~LabelMatches(instance_ns, a)
           THEN /\ ret' = [ret EXCEPT ![p] = "NotOwner"]
                /\ UNCHANGED ns
           ELSE \* the cluster marks the namespace and takes its pods down with it
                /\ ns' = [ns EXCEPT ![instance_ns].deletion_timestamp = TRUE,
                                    ![instance_ns].phase = "Terminating",
                                    ![instance_ns].pods = <<>>]
                /\ ret' = [ret EXCEPT ![p] = "Deleted"]
    /\ UNCHANGED <<pc, local>>

\* the instance ids callers pass: a bare suffix, or a name as get_instances reports it
InstanceIds ==
    {instance_suffix(s) : s \in Suffixes} \cup {<<"manual">>} \cup
    {instance_ns_name(c, instance_suffix(1)) : c \in Challenges}

----------------------------------------------------------------------------
(* The cluster: pods come up, terminating namespaces go away, and a        *)
(* namespace of the same name pattern may exist without the two labels     *)

PodsRunning(n) ==
    /\ n \in DOMAIN ns
    /\ ~ns[n].deletion_timestamp
    /\ ns[n].pods = <<>>
    /\ ns' = [ns EXCEPT ![n].pods = <<"Running">>]
    /\ UNCHANGED <<pc, local, ret>>

NamespaceGone(n) ==
    /\ n \in DOMAIN ns
    /\ ns[n].deletion_timestamp
    /\ ns' = [m \in DOMAIN ns \ {n} |-> ns[m]]
    /\ UNCHANGED <<pc, local, ret>>

\* a namespace of the same name pattern that prepare_instance did not create here:
\* made by hand (no labels) or for another actor
ForeignName == instance_ns_name("chall", <<"manual">>)

ForeignLabels == {<<>>, [challenge_id |-> "chall", actor_id |-> "user-b"]}

ForeignNamespace(labels) ==
    /\ ForeignName \notin DOMAIN ns
    /\ ns' = (ForeignName :> [labels |-> labels, deletion_timestamp |-> FALSE,
                              phase |-> "Active", pods |-> <<>>]) @@ ns
    /\ UNCHANGED <<pc, local, ret>>

----------------------------------------------------------------------------

InstIdle ==
    /\ ns = <<>>
    /\ pc = [p \in Procs |-> "idle"]
    /\ local = [p \in Procs |-> NoCall]
    /\ ret = [p \in Procs |-> None]

----------------------------------------------------------------------------
(* safe_pack_challenge: the archive of a rendered challenge directory *)

ComposePath == <<"docker-compose.yml">>

PlfignorePath == <<".plfignore">>

PlfanzenPath == <<"_plfanzen">>

\* the paths a challenge directory may hold; <<>> is the directory itself
PackPaths ==
    { <<>>, ComposePath, PlfignorePath, PlfanzenPath,
      <<"_plfanzen", "solve.py">>, <<"src">>, <<"src", "docker-compose.yml">>,
      <<"README.md">> }

NoMetadata == [present |-> FALSE, flag |-> None, flag_validation_fn |-> None]

\* the x-ctf-metadata extension: the secret is a flag or a validation function
MetadataValues ==
    { NoMetadata,
      [present |-> TRUE, flag |-> "flag{secret}", flag_validation_fn |-> None],
      [present |-> TRUE, flag |-> None, flag_validation_fn |-> "validate_fn"] }

\* a compose file is YAML that parses or does not; one that parses has
\* extensions
ComposeContents ==
    { [yaml |-> TRUE, metadata |-> m] : m \in MetadataValues }
        \cup { [yaml |-> FALSE, metadata |-> NoMetadata] }

PlainContent == [yaml |-> FALSE, metadata |-> NoMetadata]

Parent(path) == SubSeq(path, 1, Len(path) - 1)

FileName(path) == IF path = <<>> THEN None ELSE path[Len(path)]

IsDirPath(path) == path \in { <<>>, PlfanzenPath, <<"src">> }

\* directories that may be laid out: closed under parent, compose file present
PackLayouts ==
    { d \in SUBSET PackPaths :
        /\ <<>> \in d
        /\ ComposePath \in d
        /\ \A path \in d : path # <<>> => Parent(path) \in d }

DirEntry(path, compose, nested) ==
    IF IsDirPath(path) THEN [kind |-> "dir", content |-> PlainContent]
    ELSE IF path = ComposePath THEN [kind |-> "file", content |-> compose]
    ELSE IF FileName(path) = "docker-compose.yml"
         THEN [kind |-> "file", content |-> nested]
    ELSE [kind |-> "file", content |-> PlainContent]

\* WalkBuilder with .plfignore as custom ignore file: an ignored path is not
\* yielded, and neither is anything below an ignored directory
Ignored(path, rules) ==
    \E k \in 1..Len(path) : SubSeq(path, 1, k) \in rules

\* metadata.flag = None; metadata.flag_validation_fn = None; to_value
SanitizedMetadata(md) ==
    IF md.present
    THEN [present |-> TRUE, flag |-> None, flag_validation_fn |-> None]
    ELSE md

new_compose_content(compose) ==
    [yaml |-> TRUE, metadata |-> SanitizedMetadata(compose.metadata)]

TarEntry(path, kind, content) ==
    [path |-> path, kind |-> kind, content |-> content]

PackIdle ==
    /\ packDir = <<>>
    /\ packIgnored = {}
    /\ packLeft = {}
    /\ archive = <<>>
    /\ packState = "done"

PackStart ==
    /\ \E layout \in PackLayouts, compose \in ComposeContents,
          nested \in ComposeContents :
           packDir = [path \in layout |-> DirEntry(path, compose, nested)]
    /\ \E rules \in SUBSET { <<"src">>, <<"README.md">> } :
           /\ rules # {} => PlfignorePath \in DOMAIN packDir
           /\ packIgnored = rules
    /\ packLeft = { path \in DOMAIN packDir : ~Ignored(path, packIgnored) }
    /\ archive = <<>>
    /\ packState = "walking"

\* one iteration of `for entry in walker`: a directory is yielded before
\* what it holds
PackVisit(path) ==
    /\ packState = "walking"
    /\ path \in packLeft
    /\ path # <<>> => Parent(path) \notin packLeft
    /\ packLeft' = packLeft \ {path}
    /\ LET entry == packDir[path] IN
       IF path = <<>> \/ path = PlfanzenPath
       THEN UNCHANGED <<archive, packState>>
       ELSE IF FileName(path) = ".plfignore"
       THEN UNCHANGED <<archive, packState>>
       ELSE IF entry.kind = "file"
       THEN IF path = ComposePath
            THEN IF ~entry.content.yaml
                 THEN /\ packState' = "failed"
                      /\ UNCHANGED archive
                 ELSE /\ archive' = archive \o
                          << TarEntry(path, "file",
                                      new_compose_content(entry.content)),
                             TarEntry(path, "file", entry.content) >>
                      /\ UNCHANGED packState
            ELSE /\ archive' = Append(archive,
                                      TarEntry(path, "file", entry.content))
                 /\ UNCHANGED packState
       ELSE /\ archive' = Append(archive,
                                 TarEntry(path, "dir", entry.content))
            /\ UNCHANGED packState
    /\ UNCHANGED <<packDir, packIgnored>>

\* archive.finish(); tar_data.finish(); Ok(gz_data)
PackFinish ==
    /\ packState = "walking"
    /\ packLeft = {}
    /\ packState' = "done"
    /\ UNCHANGED <<packDir, packIgnored, packLeft, archive>>

----------------------------------------------------------------------------
(* sync_repo: bring the repository directory to the remote branch's head *)

TreeNames == {".git", "event.yml", "challs"}

OldCommit == "old"

NewCommit == "new"

\* a file of the working tree, as checked out from a commit
TreeFiles == TreeNames \X {OldCommit, NewCommit}

Tree(commit) == [exists |-> TRUE, files |-> TreeNames \X {commit}]

Absent == [exists |-> FALSE, files |-> {}]

EmptyDir == [exists |-> TRUE, files |-> {}]

\* a directory that holds something but no .git
StrayDir == [exists |-> TRUE, files |-> {<<"event.yml", OldCommit>>}]

\* nothing seen yet, no call made yet; otherwise a one-element sequence
NotLooked == <<>>

NotCalled == <<>>

\* repo_dir.join(".git").exists()
HasGit(dir) == \E f \in dir.files : f[1] = ".git"

SyncIdle ==
    /\ dest = Absent
    /\ temp = Absent
    /\ syncPc = "idle"
    /\ syncRet = None
    /\ before = NotCalled
    /\ saw = NotLooked

SyncStart ==
    /\ dest \in {Absent, EmptyDir, StrayDir, Tree(OldCommit)}
    /\ temp = Absent
    /\ syncPc = "idle"
    /\ syncRet = None
    /\ before = NotCalled
    /\ saw = NotLooked

\* entry of sync_repo up to the branch on .git and the emptiness check
SyncCall ==
    /\ syncPc = "idle"
    /\ before' = <<dest>>
    /\ saw' = NotLooked
    /\ IF HasGit(dest)
       THEN /\ syncPc' = "clone_temp"
            /\ syncRet' = None
       ELSE IF dest.exists /\ dest.files # {}
       THEN /\ syncPc' = "idle"
            /\ syncRet' = "DirExists"
       ELSE /\ syncPc' = "clone_dest"
            /\ syncRet' = None
    /\ UNCHANGED <<dest, temp>>

\* TempDir::new()?, Url::from_bytes(..)?, clone(.., temp_path.join("repo"))?
CloneToTemp(ok) ==
    /\ syncPc = "clone_temp"
    /\ IF ok
       THEN /\ temp' = Tree(NewCommit)
            /\ syncPc' = "remove"
            /\ UNCHANGED syncRet
       ELSE /\ temp' = Absent
            /\ syncPc' = "idle"
            /\ syncRet' = "Err"
    /\ UNCHANGED <<dest, before, saw>>

\* remove_dir_all unlinks what the directory holds entry by entry
RemoveOne(f) ==
    /\ syncPc = "remove"
    /\ f \in dest.files
    /\ dest' = [dest EXCEPT !.files = @ \ {f}]
    /\ UNCHANGED <<temp, syncPc, syncRet, before, saw>>

\* remove_dir_all(repo_dir)? returns an io::Error at whatever entry fails
RemoveFails ==
    /\ syncPc = "remove"
    /\ syncPc' = "idle"
    /\ syncRet' = "Err"
    /\ temp' = Absent
    /\ UNCHANGED <<dest, before, saw>>

\* the emptied directory itself is removed last
RemoveDone ==
    /\ syncPc = "remove"
    /\ dest.files = {}
    /\ dest' = Absent
    /\ syncPc' = "rename"
    /\ UNCHANGED <<temp, syncRet, before, saw>>

\* rename(temp_repo_path, repo_dir): Ok, or Err (another filesystem) and
\* the copy takes over, beginning with create_dir_all(dst)
Rename(ok) ==
    /\ syncPc = "rename"
    /\ IF ok
       THEN /\ dest' = temp
            /\ temp' = Absent
            /\ syncPc' = "idle"
            /\ syncRet' = "Ok"
       ELSE /\ dest' = EmptyDir
            /\ syncPc' = "copy"
            /\ UNCHANGED <<temp, syncRet>>
    /\ UNCHANGED <<before, saw>>

\* copy_dir_recursively copies one entry per iteration
CopyOne(f) ==
    /\ syncPc = "copy"
    /\ f \in temp.files \ dest.files
    /\ dest' = [dest EXCEPT !.files = @ \cup {f}]
    /\ UNCHANGED <<temp, syncPc, syncRet, before, saw>>

\* any `?` inside copy_dir_recursively
CopyFails ==
    /\ syncPc = "copy"
    /\ temp.files \ dest.files # {}
    /\ syncPc' = "idle"
    /\ syncRet' = "Err"
    /\ temp' = Absent
    /\ UNCHANGED <<dest, before, saw>>

CopyDone ==
    /\ syncPc = "copy"
    /\ temp.files \subseteq dest.files
    /\ syncPc' = "idle"
    /\ syncRet' = "Ok"
    /\ temp' = Absent
    /\ UNCHANGED <<dest, before, saw>>

\* the first clone goes straight into repo_dir; a failed clone leaves the
\* directory as found or removes what it made
CloneToDest(ok) ==
    /\ syncPc = "clone_dest"
    /\ syncPc' = "idle"
    /\ IF ok
       THEN /\ dest' = Tree(NewCommit)
            /\ syncRet' = "Ok"
       ELSE /\ dest' \in {dest, Absent}
            /\ syncRet' = "Err"
    /\ UNCHANGED <<temp, before, saw>>

\* another task reads the repository directory (the loader, the packer)
ReaderLooks ==
    /\ saw' = <<dest>>
    /\ UNCHANGED <<dest, temp, syncPc, syncRet, before>>

----------------------------------------------------------------------------
(* SSH gateway: the backend registry and one handler per client connection *)

Conns == {1, 2}

BackendServices == {"web"}

GatewayNamespaces == {"ns1"}

\* format!("{}-{}", spec.backend_service, ns)
backend_name(backend_service, namespace) == <<backend_service, "-", namespace>>

\* format!("{}.{}.svc.cluster.local:{}", backend_service, ns, backend_port)
backend_addr(backend_service, namespace) ==
    <<backend_service, ".", namespace, ".svc.cluster.local:", "22">>

\* what a client may type as login name: the registry's names and a stranger
LoginNames ==
    { backend_name(s, n) : s \in BackendServices, n \in GatewayNamespaces }
        \cup { <<"nobody">> }

Passwords == {"pw1", "pw2"}

\* Option<String> of the custom resource's gateway_password
GatewayPasswords == { <<>>, <<"pw1">> }

BackendConfig(backend_service, namespace, gateway_password) ==
    [addr |-> backend_addr(backend_service, namespace),
     login_pass |-> gateway_password]

NewHandler ==
    [authenticated_user |-> <<>>, authenticated_pass |-> <<>>,
     selected_backend |-> <<>>, backend_session |-> <<>>, replies |-> {}]

NoRequest == [op |-> None, conn |-> 0, result |-> None]

GatewayIdle ==
    /\ backends = <<>>
    /\ conn = [c \in Conns |-> NewHandler]
    /\ gwLast = NoRequest

\* reconcile of one SSHGateway resource: requeue while the backend service
\* is absent, remove_backend for a resource being deleted, else add_backend
Reconcile(backend_service, namespace, gateway_password, service_exists, deleting) ==
    /\ LET name == backend_name(backend_service, namespace) IN
       IF ~service_exists
       THEN UNCHANGED backends
       ELSE IF deleting
       THEN backends' = [u \in DOMAIN backends \ {name} |-> backends[u]]
       ELSE backends' =
               (name :> BackendConfig(backend_service, namespace,
                                      gateway_password)) @@ backends
    /\ UNCHANGED <<conn, gwLast>>

\* Server::new_client: a fresh handler for a new connection
NewClient(c) ==
    /\ conn' = [conn EXCEPT ![c] = NewHandler]
    /\ gwLast' = [op |-> "new_client", conn |-> c, result |-> None]
    /\ UNCHANGED backends

PasswordDiffers_Never(backend, password) == FALSE

\* backend.login_pass.as_ref().is_some_and(|pass| pass != password)
PasswordDiffers(backend, password) ==
    backend.login_pass # <<>> /\ backend.login_pass[1] # password

AuthPassword(c, user, password) ==
    /\ LET tried == [conn[c] EXCEPT !.authenticated_user = <<user>>,
                                    !.authenticated_pass = <<password>>]
           result == IF user \in DOMAIN backends
                        /\ ~PasswordDiffers(backends[user], password)
                     THEN "Accept" ELSE "Reject"
       IN /\ conn' = [conn EXCEPT ![c] =
                [tried EXCEPT
                   !.selected_backend =
                       IF result = "Accept" THEN <<backends[user]>> ELSE @,
                   !.replies = @ \cup {result}]]
          /\ gwLast' = [op |-> "auth_password", conn |-> c, result |-> result]
    /\ UNCHANGED backends

\* start_backend_session: connect to the selected backend's address
start_backend_session(c, op, connected) ==
    /\ IF conn[c].selected_backend = <<>>
       THEN /\ gwLast' = [op |-> op, conn |-> c, result |-> "No backend selected"]
            /\ UNCHANGED conn
       ELSE IF ~connected
       THEN /\ gwLast' = [op |-> op, conn |-> c, result |-> "Err"]
            /\ UNCHANGED conn
       ELSE /\ conn' = [conn EXCEPT ![c].backend_session =
                            <<conn[c].selected_backend[1].addr>>]
            /\ gwLast' = [op |-> op, conn |-> c, result |-> "Ok"]
    /\ UNCHANGED backends

ShellRequest(c, connected) == start_backend_session(c, "shell_request", connected)

ExecRequest(c, connected) == start_backend_session(c, "exec_request", connected)

\* channel_open_direct_tcpip makes its own backend connection
ChannelOpenDirectTcpip(c, connected) ==
    /\ IF conn[c].selected_backend = <<>>
       THEN /\ gwLast' = [op |-> "channel_open_direct_tcpip", conn |-> c,
                          result |-> "No backend selected"]
            /\ UNCHANGED conn
       ELSE IF ~connected
       THEN /\ gwLast' = [op |-> "channel_open_direct_tcpip", conn |-> c,
                          result |-> "Err"]
            /\ UNCHANGED conn
       ELSE /\ conn' = [conn EXCEPT ![c].backend_session =
                            <<conn[c].selected_backend[1].addr>>]
            /\ gwLast' = [op |-> "channel_open_direct_tcpip", conn |-> c,
                          result |-> "Ok"]
    /\ UNCHANGED backends

----------------------------------------------------------------------------
(* StartChallengeInstance: checks, prepare, render, deploy_challenge *)

\* the task that serves the start request; the other task stops instances
StartTask == 1

StopTask == 2

StartSuffixes == {1}

MaxNow == 2

\* chrono::Utc::now().timestamp() as read by the handler
Times == 0..MaxNow

LowercaseLetters ==
    { "a", "b", "c", "d", "e", "f", "g", "h", "i", "j", "k", "l", "m",
      "n", "o", "p", "q", "r", "s", "t", "u", "v", "w", "x", "y", "z" }

is_ascii_lowercase(ch) == ch \in LowercaseLetters

is_ascii_digit(ch) ==
    ch \in { "0", "1", "2", "3", "4", "5", "6", "7", "8", "9" }

ValidIdChar_Any(ch) == TRUE

\* c.is_ascii_lowercase() || c.is_ascii_digit() || c == '-' || c == '_'
ValidIdChar(ch) ==
    is_ascii_lowercase(ch) \/ is_ascii_digit(ch) \/ ch = "-" \/ ch = "_"

\* request.challenge_id.chars().all(..)
valid_challenge_id(id) == \A i \in DOMAIN id : ValidIdChar(id[i])

WebId == <<"w", "e", "b">>

VmId == <<"v", "m", "-", "1">>

BareId == <<"n", "o", "_", "0">>

SoonId == <<"s", "o", "o", "n">>

BrokenId == <<"b", "r", "k">>

ExtVolId == <<"e", "x", "t">>

UpperId == <<"W", "e", "b">>

GoneId == <<"g", "o", "n", "e">>

\* the challenge ids a request may carry
RequestIds ==
    { WebId, VmId, BareId, SoonId, BrokenId, ExtVolId, UpperId, GoneId, <<>> }

\* one compose service: what its translations yield
ComposeService(id, deployment_ok, proxied, http, tcp, ssh, data) ==
    [id |-> id, deployment_ok |-> deployment_ok, proxied |-> proxied,
     http |-> http, tcp |-> tcp, ssh |-> ssh, data |-> data]

FullService ==
    ComposeService("web", TRUE, TRUE, TRUE, FALSE, <<"22">>, TRUE)

TcpService ==
    ComposeService("db", TRUE, FALSE, FALSE, TRUE, <<>>, FALSE)

BadImageService ==
    ComposeService("job", FALSE, FALSE, FALSE, FALSE, <<>>, FALSE)

LoadedChallenge(services, vms, volumes, release_time) ==
    [services |-> services, vms |-> vms, volumes |-> volumes,
     release_time |-> release_time]

\* what load_challenge_from_repo finds under challs/<id>; an id without a
\* directory fails to load
Repo ==
    (WebId :> LoadedChallenge(<<TcpService, FullService>>, {},
                              <<[id |-> "dbdata", external |-> FALSE]>>, <<>>))
    @@ (VmId :> LoadedChallenge(<<>>, {"vm1"}, <<>>, <<>>))
    @@ (BareId :> LoadedChallenge(<<>>, {}, <<>>, <<>>))
    @@ (SoonId :> LoadedChallenge(<<TcpService>>, {}, <<>>, <<2>>))
    @@ (BrokenId :> LoadedChallenge(<<TcpService, BadImageService>>, {},
                                    <<>>, <<>>))
    @@ (ExtVolId :> LoadedChallenge(<<TcpService>>, {},
                                    <<[id |-> "shared", external |-> TRUE]>>,
                                    <<>>))
    @@ (UpperId :> LoadedChallenge(<<TcpService>>, {}, <<>>, <<>>))

NoRequestYet ==
    [challenge_id |-> <<>>, actor |-> None, require_release |-> FALSE,
     now |-> 0]

KubeObject(kind, name, ok) == [kind |-> kind, name |-> name, ok |-> ok]

RECURSIVE Flatten(_)
Flatten(seqs) ==
    IF seqs = <<>> THEN <<>> ELSE Head(seqs) \o Flatten(Tail(seqs))

\* the five vectors the try_fold fills, service by service
deployments(services) ==
    [i \in DOMAIN services |->
        KubeObject("Deployment", <<services[i].id>>, services[i].deployment_ok)]

svcs(services) ==
    Flatten([i \in DOMAIN services |->
        <<KubeObject("Service", <<services[i].id>>, TRUE)>> \o
        (IF services[i].proxied
         THEN <<KubeObject("Service", <<services[i].id, "-exposed-ports">>, TRUE)>>
         ELSE <<>>)])

ingressroutes(services) ==
    Flatten([i \in DOMAIN services |->
        IF services[i].http
        THEN <<KubeObject("IngressRoute",
                          <<services[i].id, "-ingress-route">>, TRUE)>>
        ELSE <<>>])

ingressroutestcp(services) ==
    Flatten([i \in DOMAIN services |->
        IF services[i].tcp
        THEN <<KubeObject("IngressRouteTCP",
                          <<services[i].id, "-ingress-route-tcp">>, TRUE)>>
        ELSE <<>>])

sshgateways(services) ==
    Flatten([i \in DOMAIN services |->
        [j \in DOMAIN services[i].ssh |->
            KubeObject("SSHGateway",
                       <<services[i].id, "-", services[i].ssh[j]>>, TRUE)]])

\* the volumes' claims, then the data claim when a service requires it
pvcs(challenge) ==
    [i \in DOMAIN challenge.volumes |->
        KubeObject("PersistentVolumeClaim", <<challenge.volumes[i].id>>, TRUE)]
    \o (IF \E i \in DOMAIN challenge.services : challenge.services[i].data
        THEN <<KubeObject("PersistentVolumeClaim",
                          <<"plfanzen_internal_ctf_data">>, TRUE)>>
        ELSE <<>>)

\* Some(Resource::External { .. }) => Err(())
HasExternalVolume(challenge) ==
    \E i \in DOMAIN challenge.volumes : challenge.volumes[i].external

EmptyPlan ==
    [Deployment |-> <<>>, Service |-> <<>>, IngressRoute |-> <<>>,
     IngressRouteTCP |-> <<>>, PersistentVolumeClaim |-> <<>>,
     SSHGateway |-> <<>>]

CreationOrder_ClaimsFirst ==
    <<"PersistentVolumeClaim", "Deployment", "Service", "IngressRoute",
      "IngressRouteTCP", "SSHGateway">>

\* the order of the six creation loops
CreationOrder ==
    <<"Deployment", "Service", "IngressRoute", "IngressRouteTCP",
      "PersistentVolumeClaim", "SSHGateway">>

\* the loop that runs next: the first whose vector is not used up
NextKind(p) ==
    LET left == { i \in DOMAIN CreationOrder : p[CreationOrder[i]] # <<>> }
    IN  IF left = {} THEN None
        ELSE CreationOrder[CHOOSE i \in left : \A j \in left : i <= j]

StartIdle ==
    /\ startPc = "idle"
    /\ req = NoRequestYet
    /\ startRet = None
    /\ plan = EmptyPlan
    /\ created = <<>>
    /\ failed = <<>>

\* the handler up to the call of prepare_instance; the clock is read only
\* under require_release
StartCheck(id, actor, require_release, now) ==
    /\ startPc = "idle"
    /\ req' = [challenge_id |-> id, actor |-> actor,
               require_release |-> require_release,
               now |-> IF require_release THEN now ELSE 0]
    /\ plan' = EmptyPlan
    /\ created' = <<>>
    /\ failed' = <<>>
    /\ IF ~valid_challenge_id(id)
       THEN startRet' = "InvalidArgument" /\ UNCHANGED startPc
       ELSE IF id \notin DOMAIN Repo
       THEN startRet' = "Internal" /\ UNCHANGED startPc
       ELSE IF Repo[id].services = <<>> /\ Repo[id].vms = {}
       THEN startRet' = "FailedPrecondition" /\ UNCHANGED startPc
       ELSE IF /\ require_release
               /\ Repo[id].release_time # <<>>
               /\ now < Repo[id].release_time[1]
       THEN startRet' = "FailedPrecondition" /\ UNCHANGED startPc
       ELSE startRet' = None /\ startPc' = "prepare"
    /\ UNCHANGED instVars

\* prepare_instance up to its loop; its errors become Status::internal
StartPrepareList ==
    /\ startPc = "prepare"
    /\ PrepareList(StartTask, req.challenge_id, req.actor)
    /\ IF pc'[StartTask] = "loop"
       THEN startPc' = "create_ns" /\ UNCHANGED startRet
       ELSE startPc' = "idle" /\ startRet' = "Internal"
    /\ UNCHANGED <<req, plan, created, failed>>

\* one iteration of prepare_instance's loop
StartPrepareCreate(s) ==
    /\ startPc = "create_ns"
    /\ PrepareCreate(StartTask, s)
    /\ IF pc'[StartTask] = "loop"
       THEN UNCHANGED <<startPc, startRet>>
       ELSE IF ret'[StartTask] = "Ok"
       THEN startPc' = "render" /\ UNCHANGED startRet
       ELSE startPc' = "idle" /\ startRet' = "Internal"
    /\ UNCHANGED <<req, plan, created, failed>>

\* tempdir() and render_dir_recursively
StartRender(ok) ==
    /\ startPc = "render"
    /\ IF ok
       THEN startPc' = "translate" /\ UNCHANGED startRet
       ELSE startPc' = "idle" /\ startRet' = "Internal"
    /\ UNCHANGED <<instVars, req, plan, created, failed>>

\* deploy_challenge before its first creation: the try_fold and the volumes
DeployTranslate(translated) ==
    /\ startPc = "translate"
    /\ LET challenge == Repo[req.challenge_id] IN
       IF ~translated \/ HasExternalVolume(challenge)
       THEN /\ startPc' = "idle"
            /\ startRet' = "Internal"
            /\ UNCHANGED plan
       ELSE /\ plan' = [Deployment |-> deployments(challenge.services),
                        Service |-> svcs(challenge.services),
                        IngressRoute |-> ingressroutes(challenge.services),
                        IngressRouteTCP |-> ingressroutestcp(challenge.services),
                        PersistentVolumeClaim |-> pvcs(challenge),
                        SSHGateway |-> sshgateways(challenge.services)]
            /\ startPc' = "deploy"
            /\ UNCHANGED startRet
    /\ UNCHANGED <<instVars, req, created, failed>>

\* one iteration of a creation loop: `deployment?` and `create(..).await?`
DeployCreate(accepted) ==
    /\ startPc = "deploy"
    /\ NextKind(plan) # None
    /\ LET kind == NextKind(plan)
           object == Head(plan[kind])
       IN  IF object.ok /\ accepted
           THEN /\ created' = Append(created,
                                     [kind |-> kind, name |-> object.name])
                /\ plan' = [plan EXCEPT ![kind] = Tail(@)]
                /\ UNCHANGED <<startPc, startRet, failed>>
           ELSE /\ failed' = <<[kind |-> kind, name |-> object.name]>>
                /\ startPc' = "idle"
                /\ startRet' = "Internal"
                /\ UNCHANGED <<plan, created>>
    /\ UNCHANGED <<instVars, req>>

\* every loop has run: the response carries the instance id
DeployDone ==
    /\ startPc = "deploy"
    /\ NextKind(plan) = None
    /\ startPc' = "idle"
    /\ startRet' = "Ok"
    /\ UNCHANGED <<instVars, req, plan, created, failed>>

----------------------------------------------------------------------------
(* StopChallengeInstance: get_instances, then delete_instance for each     *)
(* listed instance that is not Terminating                                 *)

StopSuffixes == {1, 2}

NoStop ==
    [challenge_id |-> None, actor |-> None, instances |-> <<>>,
     reported |-> <<>>, left |-> {}, success |-> FALSE, deleted |-> {},
     failed_on |-> <<>>]

StopIdle ==
    /\ stopPc = "idle"
    /\ stopCall = NoStop
    /\ stopRet = None

\* get_instances; `reported` keeps, per listed namespace, the state it got,
\* `deleted` the namespaces api.delete was called on
StopList(c, a) ==
    /\ stopPc = "idle"
    /\ LET instances == get_instances(c, a) IN
       stopCall' = [challenge_id |-> c, actor |-> a, instances |-> instances,
                    reported |-> [n \in ListedNs(c, a) |-> InstanceStateOf(c, n)],
                    left |-> DOMAIN instances, success |-> FALSE,
                    deleted |-> {}, failed_on |-> <<>>]
    /\ stopPc' = "loop"
    /\ stopRet' = None
    /\ UNCHANGED instVars

\* one iteration of `for (instance_name, state) in instances`, in the
\* HashMap's order
StopNext(instance_name) ==
    /\ stopPc = "loop"
    /\ instance_name \in stopCall.left
    /\ IF stopCall.instances[instance_name] = "Terminating"
       THEN /\ stopCall' = [stopCall EXCEPT !.left = @ \ {instance_name}]
            /\ UNCHANGED <<instVars, stopPc, stopRet>>
       ELSE /\ DeleteInstance(StopTask, stopCall.challenge_id, stopCall.actor,
                              instance_name)
            /\ IF ret'[StopTask] = "Deleted"
               THEN /\ stopCall' =
                        [stopCall EXCEPT
                            !.left = @ \ {instance_name},
                            !.success = TRUE,
                            !.deleted = @ \cup
                                {instance_ns_name(stopCall.challenge_id,
                                                  instance_name)}]
                    /\ UNCHANGED <<stopPc, stopRet>>
               ELSE /\ stopCall' = [stopCall EXCEPT
                                       !.failed_on = <<instance_name>>]
                    /\ stopPc' = "idle"
                    /\ stopRet' = "Internal"

\* Ok(StopChallengeInstanceResponse { success })
StopDone ==
    /\ stopPc = "loop"
    /\ stopCall.left = {}
    /\ stopPc' = "idle"
    /\ stopRet' = "Ok"
    /\ UNCHANGED <<instVars, stopCall>>

----------------------------------------------------------------------------
(* The gateway's controller: SSHGateway resources and their Services *)

CtlServices == {"web", "db"}

\* the custom resources the controller watches, as (backend_service, ns)
GatewayKeys == { <<s, n>> : s \in CtlServices, n \in GatewayNamespaces }

NoGateway == [phase |-> "absent", gateway_password |-> <<>>]

CtlIdle ==
    /\ gateways = [g \in GatewayKeys |-> NoGateway]
    /\ backendSvcs = {}

\* an SSHGateway resource is applied to the cluster
ApplyGateway(g, pw) ==
    /\ gateways[g].phase = "absent"
    /\ gateways' = [gateways EXCEPT ![g] =
                       [phase |-> "present", gateway_password |-> pw]]
    /\ UNCHANGED <<backendSvcs, gwVars>>

\* the resource is deleted: the API server sets metadata.deletion_timestamp
DeleteGateway(g) ==
    /\ gateways[g].phase = "present"
    /\ gateways' = [gateways EXCEPT ![g].phase = "deleting"]
    /\ UNCHANGED <<backendSvcs, gwVars>>

CreateService(g) ==
    /\ g \notin backendSvcs
    /\ backendSvcs' = backendSvcs \cup {g}
    /\ UNCHANGED <<gateways, gwVars>>

DeleteService(g) ==
    /\ g \in backendSvcs
    /\ backendSvcs' = backendSvcs \ {g}
    /\ UNCHANGED <<gateways, gwVars>>

\* the controller runs reconcile on a resource it watches: after each change
\* of the resource, and again 10 s after a run that found no Service
ControllerReconciles(g) ==
    /\ gateways[g].phase \in {"present", "deleting"}
    /\ Reconcile(g[1], g[2], gateways[g].gateway_password,
                 g \in backendSvcs, gateways[g].phase = "deleting")
    /\ UNCHANGED <<gateways, backendSvcs>>

----------------------------------------------------------------------------
(* SSH gateway: the forwarding task of one session (the pump) *)

\* chunks the client sends in one session
MaxChunks == 2

\* messages the backend channel produces in one session
MaxMsgs == 3

ExitStatuses == {0, 1}

\* russh::ChannelMsg as backend_channel.wait() returns it; End is None
ChannelMsgs(k) ==
    { [type |-> t, val |-> k] : t \in {"Data", "ExtendedData"} }
        \cup { [type |-> "ExitStatus", val |-> e] : e \in ExitStatuses }
        \cup { [type |-> t, val |-> 0] : t \in {"Eof", "Close", "End"} }

PipeIdle ==
    /\ pipeMode = None
    /\ tx = FALSE
    /\ rx = <<>>
    /\ received = <<>>
    /\ backendIn = <<>>
    /\ produced = <<>>
    /\ taken = 0
    /\ clientOut = <<>>
    /\ pump = "none"
    /\ clientChan = "open"
    /\ backendChan = "open"
    /\ clientEof = FALSE

\* the tail of start_backend_session and of channel_open_direct_tcpip:
\* the mpsc channel is made, its sender stored, the task spawned
SpawnPump(mode) ==
    /\ pump = "none"
    /\ pipeMode' = mode
    /\ tx' = TRUE
    /\ pump' = "running"
    /\ UNCHANGED <<rx, received, backendIn, produced, taken, clientOut,
                   clientChan, backendChan, clientEof>>

\* Handler::data during the session: the chunk is queued if there is a
\* sender, else dropped
ClientData ==
    /\ pump # "none"
    /\ clientChan = "open"
    /\ ~clientEof
    /\ Len(received) < MaxChunks
    /\ LET data == Len(received) + 1 IN
         /\ received' = Append(received, data)
         /\ rx' = IF tx /\ pump # "done" THEN Append(rx, data) ELSE rx
    /\ UNCHANGED <<pipeMode, tx, backendIn, produced, taken, clientOut, pump,
                   clientChan, backendChan, clientEof>>

\* Handler::channel_eof: only the sender is dropped
ChannelEof ==
    /\ pump # "none"
    /\ clientChan = "open"
    /\ ~clientEof
    /\ clientEof' = TRUE
    /\ tx' = FALSE
    /\ UNCHANGED <<pipeMode, rx, received, backendIn, produced, taken,
                   clientOut, pump, clientChan, backendChan>>

\* the client closes its channel; the handler has no channel_close callback
ClientClose ==
    /\ pump # "none"
    /\ clientChan = "open"
    /\ clientChan' = "closed"
    /\ UNCHANGED <<pipeMode, tx, rx, received, backendIn, produced, taken,
                   clientOut, pump, backendChan, clientEof>>

\* the backend's side of the channel produces its next message; Close and
\* the end of the stream are the last ones
BackendProduces(msg) ==
    /\ pump # "none"
    /\ backendChan = "open"
    /\ Len(produced) < MaxMsgs
    /\ produced' = Append(produced, msg)
    /\ backendChan' = IF msg.type \in {"Close", "End"} THEN "closed"
                      ELSE backendChan
    /\ UNCHANGED <<pipeMode, tx, rx, received, backendIn, taken, clientOut,
                   pump, clientChan, clientEof>>

recv_Newest(q) == [data |-> q[Len(q)], rest |-> SubSeq(q, 1, Len(q) - 1)]

\* rx.recv() of a non-empty queue
recv(q) == [data |-> Head(q), rest |-> Tail(q)]

\* whether a send on a channel can fail: not while the channel is open
SendResults(chan) == IF chan = "open" THEN {"Ok"} ELSE {"Ok", "Err"}

\* select! branch "Some(data) = rx.recv()": forward one chunk to the backend
PumpClientToBackend ==
    /\ pump = "running"
    /\ rx # <<>>
    /\ rx' = recv(rx).rest
    /\ \E r \in SendResults(backendChan) :
          IF r = "Ok"
          THEN backendIn' = Append(backendIn, recv(rx).data) /\ pump' = pump
          ELSE backendIn' = backendIn /\ pump' = "done"
    /\ UNCHANGED <<pipeMode, tx, received, produced, taken, clientOut,
                   clientChan, backendChan, clientEof>>

NoCall_OnClient == [call |-> "none", val |-> 0, fallible |-> FALSE,
                    break |-> FALSE]

PipingReaction_NoExitStatus(msg) ==
    CASE msg.type = "Data" ->
             [call |-> "data", val |-> msg.val, fallible |-> TRUE,
              break |-> FALSE]
      [] msg.type = "ExtendedData" ->
             [call |-> "extended_data", val |-> msg.val, fallible |-> TRUE,
              break |-> FALSE]
      [] msg.type = "Eof" ->
             [call |-> "eof", val |-> 0, fallible |-> FALSE, break |-> FALSE]
      [] msg.type = "ExitStatus" -> NoCall_OnClient
      [] msg.type \in {"Close", "End"} ->
             [call |-> "close", val |-> 0, fallible |-> FALSE, break |-> TRUE]

\* the match on backend_channel.wait() in start_backend_session: the call
\* made on the client's handle, whether its error breaks the loop, and
\* whether the arm itself breaks
PipingReaction(msg) ==
    CASE msg.type = "Data" ->
             [call |-> "data", val |-> msg.val, fallible |-> TRUE,
              break |-> FALSE]
      [] msg.type = "ExtendedData" ->
             [call |-> "extended_data", val |-> msg.val, fallible |-> TRUE,
              break |-> FALSE]
      [] msg.type = "Eof" ->
             [call |-> "eof", val |-> 0, fallible |-> FALSE, break |-> FALSE]
      [] msg.type = "ExitStatus" ->
             [call |-> "exit_status_request", val |-> msg.val,
              fallible |-> FALSE, break |-> FALSE]
      [] msg.type \in {"Close", "End"} ->
             [call |-> "close", val |-> 0, fallible |-> FALSE, break |-> TRUE]

\* the match on backend_channel.wait() in channel_open_direct_tcpip
TcpReaction(msg) ==
    CASE msg.type = "Data" ->
             [call |-> "data", val |-> msg.val, fallible |-> TRUE,
              break |-> FALSE]
      [] msg.type \in {"Eof", "Close", "End"} ->
             [call |-> "close", val |-> 0, fallible |-> FALSE, break |-> TRUE]
      [] OTHER -> NoCall_OnClient

\* select! branch "msg = backend_channel.wait()"
PumpBackendToClient ==
    /\ pump = "running"
    /\ taken < Len(produced)
    /\ taken' = taken + 1
    /\ LET msg == produced[taken + 1]
           re == IF pipeMode = "Piping" THEN PipingReaction(msg)
                 ELSE TcpReaction(msg)
       IN  IF re.call = "none"
           THEN UNCHANGED <<clientOut, pump, clientChan>>
           ELSE \E r \in SendResults(clientChan) :
                  /\ clientOut' = Append(clientOut,
                        [call |-> re.call, val |-> re.val, result |-> r])
                  /\ pump' = IF re.break \/ (r = "Err" /\ re.fallible)
                             THEN "done" ELSE pump
                  /\ clientChan' = IF re.call = "close" THEN "closed"
                                   ELSE clientChan
    /\ UNCHANGED <<pipeMode, tx, rx, received, backendIn, produced,
                   backendChan, clientEof>>

----------------------------------------------------------------------------
(* CheckFlag: one flag against one challenge or against all of them *)

RepoChallenges == {"c1", "c2", "c3"}

Flags == {"flag{a}", "flag{b}"}

\* bodies of flag_validation_fn: one that compares with flag{a}, one that
\* throws
JsBodies == {"accept_a", "throw"}

\* enum FlagValidator
FlagValidators ==
    { [kind |-> "String", flag |-> f] : f \in Flags }
        \cup { [kind |-> "JsFunction", flag_validation_fn |-> b] : b \in JsBodies }

\* the repositories: some of the challenges, each with its validator
Repos ==
    UNION { [ids -> FlagValidators] : ids \in SUBSET RepoChallenges }

\* CtfChallengeMetadata::check_flag
check_flag(flag_validator, input_flag) ==
    IF flag_validator.kind = "String"
    THEN [kind |-> "Ok", val |-> flag_validator.flag = input_flag]
    ELSE CASE flag_validator.flag_validation_fn = "accept_a" ->
                  [kind |-> "Ok", val |-> input_flag = "flag{a}"]
           [] flag_validator.flag_validation_fn = "throw" ->
                  [kind |-> "Err", val |-> FALSE]

NoCheck == [flag |-> None, challenge_id |-> <<>>, challenges |-> <<>>,
            left |-> {}, logged |-> {}, scanned |-> <<>>]

NoReply == [kind |-> "none", solved_challenge_id |-> <<>>, on |-> <<>>]

CheckIdle == checkPc = "idle" /\ checkCall = NoCheck /\ checkRet = NoReply

\* the head of check_flag: the one challenge asked for, or all of the
\* repository; a challenge that cannot be loaded is an Internal error
CheckFlagLoad(repo, challenge_id, flag) ==
    /\ checkPc = "idle"
    /\ IF challenge_id # <<>> /\ challenge_id[1] \notin DOMAIN repo
       THEN /\ checkCall' = [NoCheck EXCEPT !.flag = flag,
                                            !.challenge_id = challenge_id]
            /\ checkRet' = [kind |-> "Internal", solved_challenge_id |-> <<>>,
                            on |-> <<"load">>]
            /\ checkPc' = "idle"
       ELSE LET challenges ==
                    IF challenge_id # <<>>
                    THEN [c \in {challenge_id[1]} |-> repo[c]]
                    ELSE repo
            IN  /\ checkCall' = [flag |-> flag, challenge_id |-> challenge_id,
                                 challenges |-> challenges,
                                 left |-> DOMAIN challenges, logged |-> {},
                                 scanned |-> <<>>]
                /\ checkRet' = NoReply
                /\ checkPc' = "loop"

ReturnsError_Always(total_challs) == TRUE

\* if total_challs == 1 { return Err(e) }
ReturnsError(total_challs) == total_challs = 1

\* one iteration of `for (challenge_id, chall) in challenges`, in the
\* HashMap's order
CheckFlagNext(challenge_id) ==
    /\ checkPc = "loop"
    /\ challenge_id \in checkCall.left
    /\ LET res == check_flag(checkCall.challenges[challenge_id],
                             checkCall.flag)
           total_challs == Cardinality(DOMAIN checkCall.challenges)
           seen == [checkCall EXCEPT !.left = @ \ {challenge_id},
                                     !.scanned = Append(@, challenge_id)]
       IN  CASE res.kind = "Ok" /\ res.val ->
                    /\ checkCall' = seen
                    /\ checkRet' = [kind |-> "Ok",
                                    solved_challenge_id |-> <<challenge_id>>,
                                    on |-> <<>>]
                    /\ checkPc' = "idle"
             [] res.kind = "Ok" /\ ~res.val ->
                    /\ checkCall' = seen
                    /\ UNCHANGED <<checkRet, checkPc>>
             [] res.kind = "Err" ->
                    IF ReturnsError(total_challs)
                    THEN /\ checkCall' = seen
                         /\ checkRet' = [kind |-> "Internal",
                                         solved_challenge_id |-> <<>>,
                                         on |-> <<challenge_id>>]
                         /\ checkPc' = "idle"
                    ELSE /\ checkCall' = [seen EXCEPT
                                            !.logged = @ \cup {challenge_id}]
                         /\ UNCHANGED <<checkRet, checkPc>>

\* the loop ran out: Ok with no solved challenge
CheckFlagNone ==
    /\ checkPc = "loop"
    /\ checkCall.left = {}
    /\ checkRet' = [kind |-> "Ok", solved_challenge_id |-> <<>>, on |-> <<>>]
    /\ checkPc' = "idle"
    /\ UNCHANGED checkCall

----------------------------------------------------------------------------
(* submitFlag of the API: two CheckFlag calls and one row *)

\* submit_flag calls in one behaviour
MaxSubmissions == 2

C1Id == <<"c", "1">>

C2Id == <<"c", "2">>

\* well-formed ids of the repository, a well-formed id that is not in it,
\* an id with an upper-case letter, the empty id
SubmittedIds == { C1Id, C2Id, <<"z">>, <<"C", "1">>, <<>> }

SubmitRepos ==
    UNION { [ids -> FlagValidators] : ids \in SUBSET {C1Id, C2Id} }

\* context.require_authentication(): the session's user, if any
SessionUsers == { <<>>, <<"u1">> }

\* what the manager's check_flag can answer for a request: Ok(None),
\* Ok(Some(id)) for an accepting challenge it meets before any other, or an
\* error (the challenge cannot be loaded, the only candidate's validator
\* fails, or the manager is out of reach)
CheckFlagReplies(repo, challenge_id, flag, manager_up) ==
    IF ~manager_up THEN { [kind |-> "Err", solved_challenge_id |-> <<>>] }
    ELSE IF challenge_id # <<>> /\ challenge_id[1] \notin DOMAIN repo
    THEN { [kind |-> "Err", solved_challenge_id |-> <<>>] }
    ELSE LET challenges == IF challenge_id # <<>>
                           THEN [c \in {challenge_id[1]} |-> repo[c]]
                           ELSE repo
             res(c) == check_flag(challenges[c], flag)
             accepting == { c \in DOMAIN challenges :
                              res(c).kind = "Ok" /\ res(c).val }
             failing == { c \in DOMAIN challenges : res(c).kind = "Err" }
         IN  IF accepting # {}
             THEN { [kind |-> "Ok", solved_challenge_id |-> <<c>>] :
                      c \in accepting }
             ELSE IF failing # {}
                     /\ ReturnsError(Cardinality(DOMAIN challenges))
             THEN { [kind |-> "Err", solved_challenge_id |-> <<>>] }
             ELSE { [kind |-> "Ok", solved_challenge_id |-> <<>>] }

\* .map(|r| r.into_inner().solved_challenge_id).unwrap_or_else(|e| None)
solved_challenge_of(reply) ==
    IF reply.kind = "Ok" THEN reply.solved_challenge_id ELSE <<>>

NeedsScan_Never(solved_challenge) == FALSE

\* if solved_challenge.is_none()
NeedsScan(solved_challenge) == solved_challenge = <<>>

SubmitIdle ==
    /\ solves = {}
    /\ invalid_submissions = {}
    /\ submissions = <<>>
    /\ submitRepo = <<>>

\* the API starts with empty tables, over any repository
SubmitStart ==
    /\ solves = {}
    /\ invalid_submissions = {}
    /\ submissions = <<>>
    /\ submitRepo \in SubmitRepos

\* submit_flag, whole; the row's id stands for the Uuid the database gives
\* it, and the insert is taken to succeed
SubmitFlag(user, challenge_id, flag, up1, up2) ==
    /\ Len(submissions) < MaxSubmissions
    /\ LET id == Len(submissions) + 1
           call == [user |-> user, challenge_id |-> challenge_id,
                    flag |-> flag, up1 |-> up1, up2 |-> up2]
       IN
       IF challenge_id = <<>> \/ ~valid_challenge_id(challenge_id)
          \/ user = <<>>
       THEN /\ submissions' = Append(submissions,
                                  call @@ [ret |-> "Err", solved |-> <<>>])
            /\ UNCHANGED <<solves, invalid_submissions>>
       ELSE \E first \in CheckFlagReplies(submitRepo, <<challenge_id>>,
                                            flag, up1) :
            \E second \in CheckFlagReplies(submitRepo, <<>>, flag, up2) :
              LET targeted == solved_challenge_of(first)
                  solved_challenge ==
                      IF NeedsScan(targeted)
                      THEN solved_challenge_of(second) ELSE targeted
              IN  /\ IF solved_challenge # <<>>
                     THEN /\ solves' = solves \cup
                                {[id |-> id, user_id |-> user[1],
                                  challenge_id |-> solved_challenge[1],
                                  submitted_flag |-> flag]}
                          /\ UNCHANGED invalid_submissions
                     ELSE /\ invalid_submissions' = invalid_submissions \cup
                                {[id |-> id, user_id |-> user[1],
                                  challenge_id |-> challenge_id,
                                  submitted_flag |-> flag]}
                          /\ UNCHANGED solves
                  /\ submissions' = Append(submissions,
                         call @@ [ret |-> "Ok", solved |-> solved_challenge])
    /\ UNCHANGED submitRepo

----------------------------------------------------------------------------
(* get_instances over a namespace in any condition *)

\* pods in the namespace listed
MaxPods == 2

\* status.phase of a pod; NoPhase: status without phase, NoStatus: no status
PodPhases == {"Pending", "Running", "Succeeded", "Failed", "NoPhase",
              "NoStatus"}

PodLists == UNION { [1..k -> PodPhases] : k \in 0..MaxPods }

ListedNamespace == instance_ns_name("chall", instance_suffix(1))

NotListed == [called |-> FALSE, challenge_id |-> None, actor |-> None,
              instances |-> <<>>]

ListIdle == listRet = NotListed

\* one instance namespace of ("chall", "user-a"), in any condition
ListStart ==
    /\ \E d \in BOOLEAN, ph \in {"Active", "Terminating"}, pods \in PodLists :
          ns = [n \in {ListedNamespace} |->
                  [NewNamespace("chall", "user-a") EXCEPT
                      !.deletion_timestamp = d, !.phase = ph, !.pods = pods]]
    /\ pc = [p \in Procs |-> "idle"]
    /\ local = [p \in Procs |-> NoCall]
    /\ ret = [p \in Procs |-> None]

\* a caller of get_instances
ListInstances(c, a) ==
    /\ listRet' = [called |-> TRUE, challenge_id |-> c, actor |-> a,
                   instances |-> get_instances(c, a)]
    /\ UNCHANGED instVars

\* the cluster: the pods of the namespace come, go and change phase
PodsChange(n, pods) ==
    /\ n \in DOMAIN ns
    /\ ns' = [ns EXCEPT ![n].pods = pods]
    /\ listRet' = NotListed
    /\ UNCHANGED <<pc, local, ret>>

----------------------------------------------------------------------------
(* RetrieveFile: an attachment of a rendered challenge *)

FileNames == {"a.txt", "b.txt", "docker-compose.yml"}

\* metadata.attachments of the challenge (a Vec, used for contains only)
AttachmentLists == SUBSET {"a.txt", "b.txt"}

\* metadata.release_time
ReleaseTimes == { <<>>, <<1>> }

NoRetrieve == [filename |-> None, require_release |-> FALSE, now |-> 0,
               attachments |-> {}, release_time |-> <<>>,
               loads |-> FALSE, renders |-> FALSE, on_disk |-> FALSE]

NoStatus == [code |-> "none", at |-> "none", file_content |-> <<>>]

RetrieveIdle ==
    /\ retrCall = NoRetrieve
    /\ retrRet = NoStatus
    /\ retrReads = {}

\* retrieve_file, whole: load, release check, render, allowlist, read.
\* loads, renders: whether loading and rendering succeed; on_disk: whether
\* the rendered directory holds a readable file of that name
RetrieveFile(call) ==
    /\ retrCall' = call
    /\ CASE ~call.loads ->
              /\ retrRet' = [NoStatus EXCEPT !.code = "Internal",
                                             !.at = "load"]
              /\ retrReads' = {}
         [] call.loads /\ call.require_release /\ call.release_time # <<>>
                /\ call.now < call.release_time[1] ->
              /\ retrRet' = [NoStatus EXCEPT !.code = "PermissionDenied",
                                             !.at = "release"]
              /\ retrReads' = {}
         [] OTHER ->
              IF ~call.renders
              THEN /\ retrRet' = [NoStatus EXCEPT !.code = "Internal",
                                                  !.at = "render"]
                   /\ retrReads' = {}
              ELSE IF call.filename \notin call.attachments
              THEN /\ retrRet' = [NoStatus EXCEPT !.code = "NotFound",
                                                  !.at = "allowlist"]
                   /\ retrReads' = {}
              ELSE /\ retrReads' = {call.filename}
                   /\ retrRet' =
                        IF call.on_disk
                        THEN [code |-> "Ok", at |-> "read",
                              file_content |-> <<call.filename>>]
                        ELSE [NoStatus EXCEPT !.code = "Internal",
                                              !.at = "read"]

----------------------------------------------------------------------------
(* render_dir_recursively: the walk over a challenge directory *)

SourceRoot == <<"challs", "c">>

DestRoot == <<"tmp">>

\* a directory outside the repository, with a script and another file
OutsideDir == <<"etc">>

FsNode(kind, target) == [kind |-> kind, target |-> target]

RegularFile == FsNode("file", <<>>)

Directory == FsNode("dir", <<>>)

Symlink(target) == FsNode("link", target)

OutsideFiles ==
    (<<"challs">> :> Directory) @@ (SourceRoot :> Directory)
        @@ (OutsideDir :> Directory)
        @@ (OutsideDir \o <<"evil.js">> :> RegularFile)
        @@ (OutsideDir \o <<"secret">> :> RegularFile)

\* a challenge directory: a template or not; _plfanzen absent, a directory
\* or a symlink to the outside directory; its helper h.js absent, a file or
\* a symlink to an outside file; f.txt absent, a file, or a symlink to an
\* outside file, to a file of sub, or to the directory itself; sub or not
SourceTree(tpl, plf, helper, f, sub) ==
    OutsideFiles
        @@ (IF tpl THEN SourceRoot \o <<"t.plftera">> :> RegularFile
            ELSE <<>>)
        @@ (CASE plf = "dir" -> SourceRoot \o <<"_plfanzen">> :> Directory
              [] plf = "link_out" ->
                     SourceRoot \o <<"_plfanzen">> :> Symlink(OutsideDir)
              [] OTHER -> <<>>)
        @@ (CASE plf = "dir" /\ helper = "file" ->
                     SourceRoot \o <<"_plfanzen", "h.js">> :> RegularFile
              [] plf = "dir" /\ helper = "link_out" ->
                     SourceRoot \o <<"_plfanzen", "h.js">>
                         :> Symlink(OutsideDir \o <<"secret">>)
              [] OTHER -> <<>>)
        @@ (CASE f = "file" -> SourceRoot \o <<"f.txt">> :> RegularFile
              [] f = "link_out" ->
                     SourceRoot \o <<"f.txt">>
                         :> Symlink(OutsideDir \o <<"secret">>)
              [] f = "link_in" /\ sub ->
                     SourceRoot \o <<"f.txt">>
                         :> Symlink(SourceRoot \o <<"sub", "g.txt">>)
              [] f = "link_self" ->
                     SourceRoot \o <<"f.txt">> :> Symlink(SourceRoot)
              [] OTHER -> <<>>)
        @@ (IF sub
            THEN (SourceRoot \o <<"sub">> :> Directory)
                     @@ (SourceRoot \o <<"sub", "g.txt">> :> RegularFile)
            ELSE <<>>)

SourceTrees ==
    { SourceTree(tpl, plf, helper, f, sub) :
        tpl \in BOOLEAN, plf \in {"absent", "dir", "link_out"},
        helper \in {"absent", "file", "link_out"},
        f \in {"absent", "file", "link_out", "link_in", "link_self"},
        sub \in BOOLEAN }

EntryNames == {"t.plftera", "_plfanzen", "h.js", "evil.js", "secret",
               "f.txt", "sub", "g.txt"}

RECURSIVE canonicalize(_, _)
\* std::fs::canonicalize: every symlink on the way resolved
canonicalize(fs, path) ==
    IF path = <<>> THEN <<>>
    ELSE LET full == canonicalize(fs, Parent(path)) \o <<path[Len(path)]>>
         IN  IF full \in DOMAIN fs /\ fs[full].kind = "link"
             THEN canonicalize(fs, fs[full].target)
             ELSE full

\* Path::is_dir, Path::is_file: both follow symlinks
is_dir(fs, path) ==
    LET c == canonicalize(fs, path) IN c \in DOMAIN fs /\ fs[c].kind = "dir"

is_file(fs, path) ==
    LET c == canonicalize(fs, path) IN c \in DOMAIN fs /\ fs[c].kind = "file"

\* the names std::fs::read_dir(dir) yields
read_dir(fs, dir) ==
    { n \in EntryNames : canonicalize(fs, dir) \o <<n>> \in DOMAIN fs }

\* path.extension()
extension(name) ==
    CASE name = "t.plftera" -> "plftera"
      [] name \in {"h.js", "evil.js"} -> "js"
      [] name \in {"f.txt", "g.txt"} -> "txt"
      [] OTHER -> None

\* dest_path.with_extension("")
with_extension_none(path) ==
    IF path[Len(path)] = "t.plftera"
    THEN Parent(path) \o <<"t">> ELSE path

\* one read: the path as opened, where it leads, and whether the walk had
\* tested that path before
ReadOf(fs, path, checked) ==
    [path |-> path, canon |-> canonicalize(fs, path),
     checked |-> path \in checked]

\* process_template and load_tera_helpers: the reads made for one template
TemplateReads(fs, template_path, checked) ==
    LET tera_dir == Parent(template_path) \o <<"_plfanzen">> IN
    (IF is_dir(fs, tera_dir)
     THEN {ReadOf(fs, tera_dir, checked)}
            \cup { ReadOf(fs, tera_dir \o <<n>>, checked) :
                     n \in { m \in read_dir(fs, tera_dir) :
                               /\ is_file(fs, tera_dir \o <<m>>)
                               /\ extension(m) = "js" } }
     ELSE {})
        \cup {ReadOf(fs, template_path, checked)}

\* whether tera_with_js.eval of the helpers read can fail: a file that is
\* not one of the challenge's scripts need not be a script
EvalResults(reads) ==
    IF \E r \in reads : ~IsPrefix(SourceRoot, r.canon)
    THEN {"Ok", "Err"} ELSE {"Ok"}

Frame(source_dir, dest_dir, left) ==
    [source_dir |-> source_dir, dest_dir |-> dest_dir, left |-> left]

RenderIdle ==
    /\ renFs = <<>>
    /\ renStack = <<>>
    /\ renChecked = {}
    /\ renReads = {}
    /\ renWrites = {}
    /\ renRet = None

\* a call of render_dir_recursively on the challenge directory: read_dir
RenderStart(fs) ==
    /\ renStack = <<>>
    /\ renRet = None
    /\ renFs = <<>>
    /\ renFs' = fs
    /\ renStack' = <<Frame(SourceRoot, DestRoot, read_dir(fs, SourceRoot))>>
    /\ renReads' = {ReadOf(fs, SourceRoot, {SourceRoot})}
    /\ UNCHANGED <<renChecked, renWrites, renRet>>

\* absolute_path.starts_with(std::fs::canonicalize(source_dir)?)
contained(absolute_path, root) == IsPrefix(root, absolute_path)

\* one turn of the loop over read_dir(source_dir), in the order the file
\* system yields the entries
RenderEntry(name) ==
    /\ renStack # <<>>
    /\ LET top == renStack[Len(renStack)]
           path == top.source_dir \o <<name>>
           dest_path == top.dest_dir \o <<name>>
           absolute_path == canonicalize(renFs, path)
           root == canonicalize(renFs, top.source_dir)
           checked == renChecked \cup {path}
           rest == [renStack EXCEPT ![Len(renStack)].left = @ \ {name}]
       IN
       /\ name \in top.left
       /\ renChecked' = checked
       /\ IF ~contained(absolute_path, root)
          THEN /\ renRet' = "Err"
               /\ renStack' = <<>>
               /\ UNCHANGED <<renReads, renWrites>>
          ELSE IF absolute_path = root
          THEN /\ renStack' = rest
               /\ UNCHANGED <<renReads, renWrites, renRet>>
          ELSE IF is_dir(renFs, path)
          THEN /\ renWrites' = renWrites \cup {dest_path}
               /\ renReads' = renReads \cup {ReadOf(renFs, path, checked)}
               /\ renStack' = Append(rest,
                                 Frame(path, dest_path, read_dir(renFs, path)))
               /\ UNCHANGED renRet
          ELSE IF is_file(renFs, path) /\ extension(name) = "plftera"
          THEN LET reads == TemplateReads(renFs, path, checked) IN
               /\ renReads' = renReads \cup reads
               /\ \E r \in EvalResults(reads) :
                     IF r = "Ok"
                     THEN /\ renWrites' = renWrites
                                 \cup {with_extension_none(dest_path)}
                          /\ renStack' = rest
                          /\ UNCHANGED renRet
                     ELSE /\ renRet' = "Err"
                          /\ renStack' = <<>>
                          /\ UNCHANGED renWrites
          ELSE IF is_file(renFs, path)
          THEN /\ renReads' = renReads \cup {ReadOf(renFs, path, checked)}
               /\ renWrites' = renWrites \cup {dest_path}
               /\ renStack' = rest
               /\ UNCHANGED renRet
          ELSE /\ renStack' = rest
               /\ UNCHANGED <<renReads, renWrites, renRet>>
    /\ UNCHANGED renFs

\* the loop of the innermost directory is over: Ok(()) to its caller
RenderReturn ==
    /\ renStack # <<>>
    /\ renStack[Len(renStack)].left = {}
    /\ renStack' = SubSeq(renStack, 1, Len(renStack) - 1)
    /\ renRet' = IF Len(renStack) = 1 THEN "Ok" ELSE renRet
    /\ UNCHANGED <<renFs, renChecked, renReads, renWrites>>

----------------------------------------------------------------------------
(* JSON web tokens of the API: generate_jwt and parse_and_validate_jwt *)

\* the key of this server and one of another
SigningKeys == {"k1", "k2"}

VerifyingKey_from(signing_key) == <<"public", signing_key>>

JwtSubjects == {"u1", "u2"}

MaxClock == 2

ClockTimes == 0 .. MaxClock

\* the fields serde requires of each payload type
InnerFields ==
    [AuthJwtPayload |-> {"role", "username"},
     RefreshJwtPayload |-> {"jti", "session_id"}]

InnerTypes == DOMAIN InnerFields

AuthJwtPayloads ==
    { [role |-> r, username |-> "testuser"] : r \in {"Player", "Admin"} }

RefreshJwtPayloads == { [jti |-> "t1", session_id |-> "s1"] }

\* JwtPayload<Inner>; the constructors set nbf to the time of issue and exp
\* no earlier
JwtPayloads ==
    { [custom_fields |-> c, sub |-> s, nbf |-> n, exp |-> e] :
        c \in AuthJwtPayloads \cup RefreshJwtPayloads, s \in JwtSubjects,
        n \in ClockTimes, e \in ClockTimes }

IssuedPayloads == { p \in JwtPayloads : p.nbf <= p.exp }

\* serde_json::to_string of a JwtPayload: custom_fields is flattened into
\* the object that holds sub, exp and nbf
to_json(payload) ==
    [ f \in DOMAIN payload.custom_fields \cup {"sub", "exp", "nbf"} |->
        CASE f = "sub" -> <<"uuid", payload.sub>>
          [] f = "exp" -> <<"int", payload.exp>>
          [] f = "nbf" -> <<"int", payload.nbf>>
          [] OTHER -> <<"str", payload.custom_fields[f]>> ]

\* serde_json::from_slice::<JwtPayload<T>>: every field of T and of the
\* payload must be there; fields T does not know are skipped
from_json(T, json) ==
    IF (InnerFields[T] \cup {"sub", "exp", "nbf"}) \subseteq DOMAIN json
    THEN << [custom_fields |-> [ f \in InnerFields[T] |-> json[f][2] ],
             sub |-> json["sub"][2], nbf |-> json["nbf"][2],
             exp |-> json["exp"][2]] >>
    ELSE <<>>

BASE64_encode(bytes) == [base64 |-> bytes]

BASE64_decode(segment) == segment.base64

JwtHeader(alg) == [alg |-> alg, typ |-> "JWT"]

\* an Ed25519 signature: made from a signing key and the signed bytes, and
\* verified only by the verifying key of that key over those bytes
sign(signing_key, data) == [signed_by |-> signing_key, over |-> data]

verify(verifying_key, data, signature) ==
    /\ verifying_key = VerifyingKey_from(signature.signed_by)
    /\ signature.over = data

generate_jwt(payload, signing_key) ==
    LET header_segment == BASE64_encode(JwtHeader("EdDSA"))
        payload_segment == BASE64_encode(to_json(payload))
        signed_data == <<header_segment, ".", payload_segment>>
    IN  <<header_segment, payload_segment,
          BASE64_encode(sign(signing_key, signed_data))>>

GeneratedJwts ==
    { generate_jwt(p, k) : p \in IssuedPayloads, k \in SigningKeys }

\* what a client can make of a token it holds: another payload or another
\* header under the old signature, or a token cut short
WithPayload(token, payload) ==
    <<token[1], BASE64_encode(to_json(payload)), token[3]>>

WithAlg(token, alg) == <<BASE64_encode(JwtHeader(alg)), token[2], token[3]>>

ForgedJwts ==
    { WithPayload(t, p) :
        t \in { generate_jwt(q, "k1") : q \in IssuedPayloads },
        p \in { q \in IssuedPayloads : q.nbf = 0 /\ q.exp = MaxClock } }
      \cup { WithAlg(t, "none") : t \in GeneratedJwts }
      \cup { SubSeq(t, 1, 2) : t \in GeneratedJwts }

JwtTokens == GeneratedJwts \cup ForgedJwts

JwtErr(kind) == [kind |-> kind, val |-> <<>>]

validate_jwt(segments, verifying_key) ==
    IF Len(segments) # 3 THEN JwtErr("InvalidFormat")
    ELSE IF BASE64_decode(segments[1]).alg # "EdDSA"
    THEN JwtErr("UnsupportedAlgorithm")
    ELSE IF ~verify(verifying_key, <<segments[1], ".", segments[2]>>,
                    BASE64_decode(segments[3]))
    THEN JwtErr("InvalidSignature")
    ELSE [kind |-> "Ok", val |-> <<>>]

is_valid_now_NoExp(payload, current_time) == current_time >= payload.nbf

is_valid_now(payload, current_time) ==
    current_time >= payload.nbf /\ current_time <= payload.exp

parse_and_validate_jwt(T, segments, verifying_key, current_time) ==
    LET validated == validate_jwt(segments, verifying_key)
        payload == from_json(T, BASE64_decode(segments[2]))
    IN  IF validated.kind # "Ok" THEN validated
        ELSE IF payload = <<>> THEN JwtErr("ParsingError")
        ELSE IF ~is_valid_now(payload[1], current_time)
        THEN JwtErr("InvalidTime")
        ELSE [kind |-> "Ok", val |-> payload]

NoJwtRet == [kind |-> None, val |-> <<>>, at |-> 0]

JwtIdle ==
    /\ jwtToken = <<>>
    /\ jwtKey = VerifyingKey_from("k1")
    /\ jwtInner = "AuthJwtPayload"
    /\ jwtNow = 0
    /\ jwtRet = NoJwtRet

\* any token, either key, either payload type
JwtStart ==
    /\ jwtToken \in JwtTokens
    /\ jwtKey \in { VerifyingKey_from(k) : k \in SigningKeys }
    /\ jwtInner \in InnerTypes
    /\ jwtNow = 0
    /\ jwtRet = NoJwtRet

ParseAndValidateJwt ==
    /\ jwtRet' = parse_and_validate_jwt(jwtInner, jwtToken, jwtKey, jwtNow)
                    @@ [at |-> jwtNow]
    /\ UNCHANGED <<jwtToken, jwtKey, jwtInner, jwtNow>>

ClockTicks ==
    /\ jwtNow < MaxClock
    /\ jwtNow' = jwtNow + 1
    /\ UNCHANGED <<jwtToken, jwtKey, jwtInner, jwtRet>>

----------------------------------------------------------------------------
(* One connection with several channels: the handler's single sender *)

ChannelIds == {1, 2}

ChannelKinds == {"shell", "exec", "direct-tcpip"}

Chunks == {"x", "y"}

MuxIdle ==
    /\ chanBackend = <<>>
    /\ handlerTx = <<>>
    /\ chanEof = {}
    /\ forwarded = {}

\* start_backend_session and channel_open_direct_tcpip, once the backend is
\* connected: a new channel pair (tx, rx), rx moved into the spawned pump of
\* this channel, tx stored in the handler over the one that was there
StartPump(channel, kind) ==
    /\ channel \notin DOMAIN chanBackend
    /\ chanBackend' = (channel :> [kind |-> kind, backend_channel |-> channel])
                          @@ chanBackend
    /\ handlerTx' = <<channel>>
    /\ UNCHANGED <<chanEof, forwarded>>

StartBackendSessionOn(channel, kind) ==
    kind \in {"shell", "exec"} /\ StartPump(channel, kind)

OpenDirectTcpipOn(channel) == StartPump(channel, "direct-tcpip")

\* data: the channel id is not looked at; the bytes go into the handler's
\* sender if there is one, and nowhere if not
DataOn(channel, bytes) ==
    /\ channel \in DOMAIN chanBackend
    /\ channel \notin chanEof
    /\ forwarded' = forwarded \cup
           {[sent_on |-> channel, bytes |-> bytes, into |-> handlerTx]}
    /\ UNCHANGED <<chanBackend, handlerTx, chanEof>>

\* channel_eof: the handler's sender is dropped, whichever channel ended
ChannelEofOn(channel) ==
    /\ channel \in DOMAIN chanBackend
    /\ channel \notin chanEof
    /\ chanEof' = chanEof \cup {channel}
    /\ handlerTx' = <<>>
    /\ UNCHANGED <<chanBackend, forwarded>>

----------------------------------------------------------------------------
(* The ports of an instance: routes, SSH gateways and connection info *)

PortsSvcId == "web"

\* full_instance_ns(challenge_id, instance_id), also the namespace deployed to
PortsNs == "challenge-c-instance-i"

ExposedDomain == "localhost"

\* challenge.metadata.get_password(actor, instance_id, "ssh")
SshPassword == "derived"

TargetPorts == {"22", "80"}

PublishedPorts == { <<>>, <<"2222">> }

PortProtocols == { <<>>, <<"udp">> }

AppProtocols == { <<>>, <<"http">>, <<"SSH">> }

\* the extensions x-username and x-password of a port: both or none
PortExtensions == { <<>>, <<"ctf", "secret">> }

LongPorts ==
    [target : TargetPorts, published : PublishedPorts,
     protocol : PortProtocols, app_protocol : AppProtocols,
     extensions : PortExtensions]

\* port.published.map(|r| r.start()).unwrap_or(port.target)
published_or_target(port) ==
    IF port.published # <<>> THEN port.published[1] ELSE port.target

\* one or two ports, no two with the same target or the same published port
PortLists ==
    { <<p>> : p \in LongPorts } \cup
    { pq \in LongPorts \X LongPorts :
        /\ pq[1].target # pq[2].target
        /\ published_or_target(pq[1]) # published_or_target(pq[2]) }

to_lowercase(s) ==
    CASE s = "SSH" -> "ssh" [] s = "HTTP" -> "http" [] OTHER -> s

to_uppercase(s) ==
    CASE s = "ssh" -> "SSH" [] s = "http" -> "HTTP" [] OTHER -> s

\* port.protocol.as_ref().is_none_or(|p| p.is_tcp())
is_none_or_tcp(port) == port.protocol = <<>> \/ port.protocol = <<"tcp">>

\* port.app_protocol.is_some_and(|proto| proto.to_uppercase() == upper)
AppProtocolIs(port, upper) ==
    port.app_protocol # <<>> /\ to_uppercase(port.app_protocol[1]) = upper

\* as_ssh_gateways: one resource per TCP port of app protocol ssh that has
\* x-username and x-password
as_ssh_gateways(id, ports, ssh_password) ==
    Flatten([i \in DOMAIN ports |->
        IF /\ ports[i].app_protocol # <<>>
           /\ to_lowercase(ports[i].app_protocol[1]) = "ssh"
           /\ is_none_or_tcp(ports[i])
           /\ ports[i].extensions # <<>>
        THEN << [name |-> <<id, "-", published_or_target(ports[i])>>,
                 for_port |-> i,
                 spec |-> [backend_service |-> id,
                           backend_port |-> ports[i].target,
                           backend_username |-> ports[i].extensions[1],
                           backend_password |-> ports[i].extensions[2],
                           gateway_password |-> ssh_password]] >>
        ELSE <<>>])

IngressHost(id, port, full_instance_name, exposed_domain) ==
    <<id, "-", port, "-", full_instance_name, ".", exposed_domain>>

\* as_http_ingress: the routes of the IngressRoute, none without HTTP ports
as_http_ingress(id, ports, full_instance_name, exposed_domain) ==
    Flatten([i \in DOMAIN ports |->
        IF AppProtocolIs(ports[i], "HTTP") /\ is_none_or_tcp(ports[i])
        THEN << [kind |-> "IngressRoute", rule |-> "Host",
                 host |-> IngressHost(id, ports[i].target,
                                      full_instance_name, exposed_domain),
                 port |-> ports[i].target, for_port |-> i] >>
        ELSE <<>>])

\* as_tcp_ingress: the routes of the IngressRouteTCP
as_tcp_ingress(id, ports, full_instance_name, exposed_domain) ==
    Flatten([i \in DOMAIN ports |->
        IF /\ is_none_or_tcp(ports[i])
           /\ ~AppProtocolIs(ports[i], "HTTP")
           /\ ~AppProtocolIs(ports[i], "SSH")
        THEN << [kind |-> "IngressRouteTCP", rule |-> "HostSNI",
                 host |-> IngressHost(id, ports[i].target,
                                      full_instance_name, exposed_domain),
                 port |-> ports[i].target, for_port |-> i] >>
        ELSE <<>>])

ConnectionInfo(for_port, host, port, protocol, ssh_username, ssh_password) ==
    [for_port |-> for_port, host |-> host, port |-> port,
     protocol |-> protocol, ssh_username |-> ssh_username,
     ssh_password |-> ssh_password]

\* get_connection_details, for the ports of one service
get_connection_details(svc_id, ports, instance_ns, password) ==
    Flatten([i \in DOMAIN ports |->
        LET exposed_port == ports[i]
            is_ssh == /\ exposed_port.app_protocol # <<>>
                      /\ to_lowercase(exposed_port.app_protocol[1]) = "ssh"
            is_http == /\ exposed_port.app_protocol # <<>>
                       /\ to_lowercase(exposed_port.app_protocol[1]) = "http"
            uses_ssh_gateway == /\ is_none_or_tcp(exposed_port)
                                /\ is_ssh
                                /\ exposed_port.extensions # <<>>
            host == IF uses_ssh_gateway THEN <<ExposedDomain>>
                    ELSE IngressHost(svc_id, published_or_target(exposed_port),
                                     instance_ns, ExposedDomain)
            ssh_username ==
                IF uses_ssh_gateway
                THEN << <<svc_id, "-", published_or_target(exposed_port),
                          ":", instance_ns>> >>
                ELSE <<>>
            ssh_password == IF uses_ssh_gateway THEN <<password>> ELSE <<>>
        IN  IF is_none_or_tcp(exposed_port)
            THEN << ConnectionInfo(i, host,
                        IF is_ssh THEN 2222 ELSE 443,
                        IF is_http THEN "Https"
                        ELSE IF is_ssh THEN "Ssh" ELSE "TcpTls",
                        ssh_username, ssh_password) >>
            ELSE IF exposed_port.protocol = <<"udp">>
            THEN << ConnectionInfo(i, host, 0, "Udp", <<>>, <<>>) >>
            ELSE <<>>])

\* the BackendConfig reconcile installs for a resource of a namespace
RegisteredConfig(spec, namespace) ==
    [addr |-> <<spec.backend_service, ".", namespace, ".svc.cluster.local:",
                spec.backend_port>>,
     user |-> spec.backend_username, pass |-> spec.backend_password,
     login_pass |-> spec.gateway_password]

NoLogin == [user |-> <<>>, password |-> "", result |-> None, live |-> {}]

PortsIdle ==
    /\ svcPorts = <<>>
    /\ connInfo = <<>>
    /\ routes = {}
    /\ sshCRs = <<>>
    /\ backendRegistry = <<>>
    /\ reconciled = {}
    /\ loginRet = NoLogin

PortsStart ==
    /\ svcPorts \in PortLists
    /\ connInfo = <<>>
    /\ routes = {}
    /\ sshCRs = <<>>
    /\ backendRegistry = <<>>
    /\ reconciled = {}
    /\ loginRet = NoLogin

SeqRange(s) == { s[i] : i \in DOMAIN s }

\* StartChallengeInstance: the connection info, and deploy_challenge's
\* routes and SSHGateway resources, created in the instance namespace
StartPorts ==
    /\ connInfo = <<>>
    /\ sshCRs = <<>>
    /\ connInfo' = get_connection_details(PortsSvcId, svcPorts, PortsNs,
                                          SshPassword)
    /\ connInfo' # <<>>
    /\ routes' = SeqRange(as_http_ingress(PortsSvcId, svcPorts, PortsNs,
                                          ExposedDomain))
                 \cup SeqRange(as_tcp_ingress(PortsSvcId, svcPorts, PortsNs,
                                              ExposedDomain))
    /\ LET gws == as_ssh_gateways(PortsSvcId, svcPorts, <<SshPassword>>)
       IN  sshCRs' = [ n \in { g.name : g \in SeqRange(gws) } |->
                         LET g == CHOOSE g \in SeqRange(gws) : g.name = n
                         IN  [spec |-> g.spec, deleting |-> FALSE] ]
    /\ UNCHANGED <<svcPorts, backendRegistry, reconciled, loginRet>>

\* reconcile of the resource called name; its backend service exists
ReconcileSshGateway(name) ==
    /\ name \in DOMAIN sshCRs
    /\ LET spec == sshCRs[name].spec
           key == backend_name(spec.backend_service, PortsNs)
       IN  IF sshCRs[name].deleting
           THEN /\ backendRegistry' = [u \in DOMAIN backendRegistry \ {key} |-> backendRegistry[u]]
                /\ sshCRs' = [n \in DOMAIN sshCRs \ {name} |-> sshCRs[n]]
                /\ reconciled' = reconciled \ {name}
           ELSE /\ backendRegistry' = (key :> RegisteredConfig(spec, PortsNs))
                                   @@ backendRegistry
                /\ reconciled' = reconciled \cup {name}
                /\ UNCHANGED sshCRs
    /\ UNCHANGED <<svcPorts, connInfo, routes, loginRet>>

\* one resource is deleted from the cluster
DeleteSshGateway(name) ==
    /\ name \in DOMAIN sshCRs
    /\ ~sshCRs[name].deleting
    /\ sshCRs' = [sshCRs EXCEPT ![name].deleting = TRUE]
    /\ reconciled' = reconciled \ {name}
    /\ UNCHANGED <<svcPorts, connInfo, routes, backendRegistry, loginRet>>

\* auth_password at the gateway with a user name the connection info gave
LoginAtGateway(user, password) ==
    /\ loginRet' =
          [user |-> user, password |-> password,
           result |-> IF user \in DOMAIN backendRegistry
                         /\ ~PasswordDiffers(backendRegistry[user], password)
                      THEN "Accept" ELSE "Reject",
           live |-> reconciled]
    /\ UNCHANGED <<svcPorts, connInfo, routes, sshCRs, backendRegistry, reconciled>>

----------------------------------------------------------------------------
(* Volumes: the pod volumes of a Deployment and the claims of the instance *)

VolumeNames == {"dbdata", "cache"}

DataPvcName == "plfanzen_internal_ctf_data"

\* the paths a bind names as its source, component by component
HostPaths ==
    { <<".", "data", "db", "dump.sql">>, <<".", "data", "dbdata">>,
      <<".", "data">>, <<".", "etc">> }

\* Mount::Volume, Mount::Bind and Mount::Tmpfs of a service
Mounts ==
    { [type |-> "volume", source |-> <<v>>, target |-> "/var/lib"] :
        v \in VolumeNames }
      \cup { [type |-> "volume", source |-> <<>>, target |-> "/var/lib"] }
      \cup { [type |-> "bind", source |-> h, target |-> "/srv"] :
               h \in HostPaths }
      \cup { [type |-> "tmpfs", source |-> <<>>, target |-> "/tmp"] }

MountLists ==
    { <<m>> : m \in Mounts } \cup { <<m, n>> : m \in Mounts, n \in Mounts }

\* compose.volumes: a volume with its own description, one without
\* (None), or an external one
TopVolumeKinds == {"Compose", "None", "External"}

\* a compose document declares the named volumes its services mount
Declares(top, mounts) ==
    \A i \in DOMAIN mounts :
        (mounts[i].type = "volume" /\ mounts[i].source # <<>>)
            => mounts[i].source[1] \in DOMAIN top

\* a service binds a path under ./data/
requires_data_pvc(mounts) ==
    \E i \in DOMAIN mounts :
        mounts[i].type = "bind" /\ IsPrefix(<<".", "data">>, mounts[i].source)

VolErr(error) == [kind |-> "Err", error |-> error]

\* the closure of as_deployment that turns one mount into a pod volume
pod_volume(vol) ==
    CASE vol.type = "volume" ->
             IF vol.source = <<>> THEN VolErr("AnonymousVolume")
             ELSE [kind |-> "Ok", name |-> vol.source[1],
                   claim_name |-> <<vol.source[1]>>]
      [] vol.type = "bind" ->
             IF ~IsPrefix(<<".", "data">>, vol.source)
             THEN VolErr("HostPathVolume")
             ELSE IF Len(vol.source) < 3 THEN VolErr("HostPathVolume")
             ELSE [kind |-> "Ok", name |-> vol.target,
                   claim_name |-> <<vol.source[3]>>]
      [] OTHER -> [kind |-> "Ok", name |-> vol.target, claim_name |-> <<>>]

\* as_deployment, as far as the pod's volumes go: the first error, or all
as_deployment_volumes(mounts) ==
    LET converted == [i \in DOMAIN mounts |-> pod_volume(mounts[i])]
        errors == { i \in DOMAIN mounts : converted[i].kind = "Err" }
    IN  IF errors # {}
        THEN converted[CHOOSE i \in errors : \A j \in errors : i <= j]
        ELSE [kind |-> "Ok", volumes |-> converted]

\* the claims deploy_challenge creates: one per top-level volume, and the
\* data claim when a service requires it
created_pvcs(top, mounts) ==
    DOMAIN top \cup (IF requires_data_pvc(mounts) THEN {DataPvcName} ELSE {})

NoVolumes == [kind |-> None]

VolIdle ==
    /\ svcVolumes = <<>>
    /\ topVolumes = <<>>
    /\ volRet = NoVolumes

VolStart ==
    /\ svcVolumes \in MountLists
    /\ topVolumes \in UNION { [names -> TopVolumeKinds] :
                                names \in SUBSET VolumeNames }
    /\ Declares(topVolumes, svcVolumes)
    /\ volRet = NoVolumes

\* deploy_challenge: the translation of the service, then of the volumes;
\* an external volume fails it, as does a mount that cannot be translated
\* once its Deployment is to be created
DeployVolumes ==
    /\ volRet = NoVolumes
    /\ LET deployment == as_deployment_volumes(svcVolumes) IN
       volRet' =
          IF \E v \in DOMAIN topVolumes : topVolumes[v] = "External"
          THEN VolErr("ExternalVolume")
          ELSE IF deployment.kind = "Err" THEN deployment
          ELSE [kind |-> "Ok", volumes |-> deployment.volumes,
                pvcs |-> created_pvcs(topVolumes, svcVolumes)]
    /\ UNCHANGED <<svcVolumes, topVolumes>>

----------------------------------------------------------------------------
(* Sessions of the API: refresh_session and end_session on one session row *)

\* two requests can be served at a time
SessionTasks == {1, 2}

\* session tokens drawn in one run
MaxTokens == 3

NoRefresh == [kind |-> None, token |-> 0]

SessIdle ==
    /\ sessRow = <<>>
    /\ freshToken = 1
    /\ issued = {}
    /\ refPc = [p \in SessionTasks |-> "idle"]
    /\ refArg = [p \in SessionTasks |-> [jti |-> 0, late |-> FALSE]]
    /\ refRet = [p \in SessionTasks |-> NoRefresh]
    /\ spent = {}
    /\ wins = {}

\* create_session: a new session_token, the row, the refresh token
CreateSession ==
    /\ sessRow = <<>>
    /\ issued = {}
    /\ sessRow' = <<[session_token |-> freshToken]>>
    /\ issued' = {freshToken}
    /\ freshToken' = freshToken + 1
    /\ UNCHANGED <<refPc, refArg, refRet, spent, wins>>

\* refresh_session up to the end of its query: the row is looked up by the
\* token's jti (and session id, user, expiry); none found is an error
RefreshSelect(p, jti) ==
    /\ refPc[p] = "idle"
    /\ refArg' = [refArg EXCEPT ![p] = [jti |-> jti, late |-> jti \in spent]]
    /\ IF sessRow # <<>> /\ sessRow[1].session_token = jti
       THEN /\ refPc' = [refPc EXCEPT ![p] = "selected"]
            /\ refRet' = [refRet EXCEPT ![p] = NoRefresh]
       ELSE /\ refRet' = [refRet EXCEPT ![p] = [kind |-> "Err", token |-> 0]]
            /\ UNCHANGED refPc
    /\ UNCHANGED <<sessRow, freshToken, issued, spent, wins>>

\* the filter of the update: sessions::id.eq(current_session.id)
UpdateMatches(row, jti) == row # <<>>

\* the rest of refresh_session: a new token is drawn and stored in the row
\* with that id, and the new refresh token is returned
RefreshUpdate(p) ==
    /\ refPc[p] = "selected"
    /\ freshToken <= MaxTokens
    /\ freshToken' = freshToken + 1
    /\ refPc' = [refPc EXCEPT ![p] = "idle"]
    /\ IF UpdateMatches(sessRow, refArg[p].jti)
       THEN /\ sessRow' = <<[session_token |-> freshToken]>>
            /\ issued' = issued \cup {freshToken}
            /\ refRet' = [refRet EXCEPT ![p] =
                             [kind |-> "Ok", token |-> freshToken]]
            /\ spent' = spent \cup {refArg[p].jti}
            /\ wins' = wins \cup {[task |-> p, jti |-> refArg[p].jti,
                                   late |-> refArg[p].late]}
       ELSE /\ refRet' = [refRet EXCEPT ![p] = [kind |-> "Err", token |-> 0]]
            /\ UNCHANGED <<sessRow, issued, spent, wins>>
    /\ UNCHANGED refArg

\* end_session: one delete, of the row with that id, token and user;
\* Ok(true) whether or not a row went
EndSession(p, jti) ==
    /\ refPc[p] = "idle"
    /\ sessRow' = IF sessRow # <<>> /\ sessRow[1].session_token = jti
                  THEN <<>> ELSE sessRow
    /\ spent' = spent \cup {jti}
    /\ refRet' = [refRet EXCEPT ![p] = [kind |-> "Ended", token |-> 0]]
    /\ UNCHANGED <<freshToken, issued, refPc, refArg, wins>>

----------------------------------------------------------------------------
(* split_with_quotes *)

MaxInput == 6

WhitespaceChars == {" "}

QuoteChars == {"\"", "'"}

\* a letter, a blank, the two quotes and the backslash
InputChars == {"a", "\\"} \cup WhitespaceChars \cup QuoteChars

SplitInputs == UNION { [1 .. n -> InputChars] : n \in 0 .. MaxInput }

is_whitespace(c) == c \in WhitespaceChars

push_always(output, current_string) == Append(output, current_string)

\* if !current_string.is_empty() { output.push(current_string) }
push_nonempty(output, current_string) ==
    IF current_string # <<>> THEN Append(output, current_string) ELSE output

SplitState(output, current_string, in_quotes, quote_char, escaped) ==
    [output |-> output, current_string |-> current_string,
     in_quotes |-> in_quotes, quote_char |-> quote_char,
     escaped |-> escaped]

\* the body of `for c in input.chars()`
split_char(s, c) ==
    IF s.escaped
    THEN [s EXCEPT !.current_string = Append(@, c), !.escaped = FALSE]
    ELSE IF c = "\\"
    THEN [s EXCEPT !.escaped = TRUE]
    ELSE IF c \in QuoteChars
    THEN IF s.in_quotes /\ c = s.quote_char
         THEN [s EXCEPT !.in_quotes = FALSE, !.quote_char = " "]
         ELSE IF ~s.in_quotes
         THEN [s EXCEPT !.in_quotes = TRUE, !.quote_char = c]
         ELSE [s EXCEPT !.current_string = Append(@, c)]
    ELSE IF is_whitespace(c) /\ ~s.in_quotes
    THEN [s EXCEPT !.output = push_nonempty(@, s.current_string),
                   !.current_string = <<>>]
    ELSE [s EXCEPT !.current_string = Append(@, c)]

RECURSIVE split_loop(_, _)
split_loop(s, rest) ==
    IF rest = <<>> THEN s ELSE split_loop(split_char(s, Head(rest)), Tail(rest))

split_with_quotes(input) ==
    LET s == split_loop(SplitState(<<>>, <<>>, FALSE, " ", FALSE), input)
    IN  push_nonempty(s.output, s.current_string)

NotSplit == [done |-> FALSE, tokens |-> <<>>]

SplitIdle ==
    /\ splitIn = <<>>
    /\ splitOut = NotSplit

SplitStart ==
    /\ splitIn \in SplitInputs
    /\ splitOut = NotSplit

SplitWithQuotes ==
    /\ ~splitOut.done
    /\ splitOut' = [done |-> TRUE, tokens |-> split_with_quotes(splitIn)]
    /\ UNCHANGED splitIn

----------------------------------------------------------------------------
(* Specifications: one per component, the other components at rest *)

vars == <<instVars, packVars, syncVars, gwVars, startVars, stopVars, ctlVars,
    pipeVars, checkVars, submitVars, listVars, retrVars, renVars, jwtVars,
    muxVars, portsVars, volVars, sessVars, splitVars>>

notInst == <<packVars, syncVars, gwVars, startVars, stopVars, ctlVars,
    pipeVars, checkVars, submitVars, listVars, retrVars, renVars, jwtVars,
    muxVars, portsVars, volVars, sessVars, splitVars>>

notPack == <<instVars, syncVars, gwVars, startVars, stopVars, ctlVars,
    pipeVars, checkVars, submitVars, listVars, retrVars, renVars, jwtVars,
    muxVars, portsVars, volVars, sessVars, splitVars>>

notSync == <<instVars, packVars, gwVars, startVars, stopVars, ctlVars,
    pipeVars, checkVars, submitVars, listVars, retrVars, renVars, jwtVars,
    muxVars, portsVars, volVars, sessVars, splitVars>>

notGateway == <<instVars, packVars, syncVars, startVars, stopVars, ctlVars,
    pipeVars, checkVars, submitVars, listVars, retrVars, renVars, jwtVars,
    muxVars, portsVars, volVars, sessVars, splitVars>>

notStart == <<packVars, syncVars, gwVars, stopVars, ctlVars, pipeVars,
    checkVars, submitVars, listVars, retrVars, renVars, jwtVars, muxVars,
    portsVars, volVars, sessVars, splitVars>>

InitInst == InstIdle /\ PackIdle /\ SyncIdle /\ GatewayIdle /\ StartIdle
    /\ StopIdle /\ CtlIdle /\ PipeIdle /\ CheckIdle /\ SubmitIdle
    /\ ListIdle /\ RetrieveIdle /\ RenderIdle /\ JwtIdle /\ MuxIdle
    /\ PortsIdle /\ VolIdle /\ SessIdle /\ SplitIdle

NextInst ==
    \/ \E p \in Procs, c \in Challenges, a \in Starters :
           PrepareList(p, c, a) /\ UNCHANGED notInst
    \/ \E p \in Procs, s \in Suffixes :
           PrepareCreate(p, s) /\ UNCHANGED notInst
    \/ \E p \in Procs, c \in Challenges, a \in Actors, i \in InstanceIds :
           DeleteInstance(p, c, a, i) /\ UNCHANGED notInst
    \/ \E n \in NsNames : PodsRunning(n) /\ UNCHANGED notInst
    \/ \E n \in NsNames \cup {ForeignName} :
           NamespaceGone(n) /\ UNCHANGED notInst
    \/ \E labels \in ForeignLabels :
           ForeignNamespace(labels) /\ UNCHANGED notInst

SpecInst == InitInst /\ [][NextInst]_vars

InitPack == InstIdle /\ PackStart /\ SyncIdle /\ GatewayIdle /\ StartIdle
    /\ StopIdle /\ CtlIdle /\ PipeIdle /\ CheckIdle /\ SubmitIdle
    /\ ListIdle /\ RetrieveIdle /\ RenderIdle /\ JwtIdle /\ MuxIdle
    /\ PortsIdle /\ VolIdle /\ SessIdle /\ SplitIdle

NextPack ==
    \/ \E path \in PackPaths : PackVisit(path) /\ UNCHANGED notPack
    \/ PackFinish /\ UNCHANGED notPack

SpecPack == InitPack /\ [][NextPack]_vars

InitSync == InstIdle /\ PackIdle /\ SyncStart /\ GatewayIdle /\ StartIdle
    /\ StopIdle /\ CtlIdle /\ PipeIdle /\ CheckIdle /\ SubmitIdle
    /\ ListIdle /\ RetrieveIdle /\ RenderIdle /\ JwtIdle /\ MuxIdle
    /\ PortsIdle /\ VolIdle /\ SessIdle /\ SplitIdle

NextSync ==
    \/ SyncCall /\ UNCHANGED notSync
    \/ \E ok \in BOOLEAN : CloneToTemp(ok) /\ UNCHANGED notSync
    \/ \E f \in TreeFiles : RemoveOne(f) /\ UNCHANGED notSync
    \/ RemoveFails /\ UNCHANGED notSync
    \/ RemoveDone /\ UNCHANGED notSync
    \/ \E ok \in BOOLEAN : Rename(ok) /\ UNCHANGED notSync
    \/ \E f \in TreeFiles : CopyOne(f) /\ UNCHANGED notSync
    \/ CopyFails /\ UNCHANGED notSync
    \/ CopyDone /\ UNCHANGED notSync
    \/ \E ok \in BOOLEAN : CloneToDest(ok) /\ UNCHANGED notSync
    \/ ReaderLooks /\ UNCHANGED notSync

SpecSync == InitSync /\ [][NextSync]_vars

InitGateway == InstIdle /\ PackIdle /\ SyncIdle /\ GatewayIdle /\ StartIdle
    /\ StopIdle /\ CtlIdle /\ PipeIdle /\ CheckIdle /\ SubmitIdle
    /\ ListIdle /\ RetrieveIdle /\ RenderIdle /\ JwtIdle /\ MuxIdle
    /\ PortsIdle /\ VolIdle /\ SessIdle /\ SplitIdle

NextGateway ==
    \/ \E s \in BackendServices, n \in GatewayNamespaces,
          pw \in GatewayPasswords, service_exists \in BOOLEAN,
          deleting \in BOOLEAN :
           Reconcile(s, n, pw, service_exists, deleting)
               /\ UNCHANGED notGateway
    \/ \E c \in Conns : NewClient(c) /\ UNCHANGED notGateway
    \/ \E c \in Conns, user \in LoginNames, password \in Passwords :
           AuthPassword(c, user, password)
               /\ UNCHANGED notGateway
    \/ \E c \in Conns, connected \in BOOLEAN :
           ShellRequest(c, connected) /\ UNCHANGED notGateway
    \/ \E c \in Conns, connected \in BOOLEAN :
           ExecRequest(c, connected) /\ UNCHANGED notGateway
    \/ \E c \in Conns, connected \in BOOLEAN :
           ChannelOpenDirectTcpip(c, connected)
               /\ UNCHANGED notGateway

SpecGateway == InitGateway /\ [][NextGateway]_vars

InitStart == InstIdle /\ PackIdle /\ SyncIdle /\ GatewayIdle /\ StartIdle
    /\ StopIdle /\ CtlIdle /\ PipeIdle /\ CheckIdle /\ SubmitIdle
    /\ ListIdle /\ RetrieveIdle /\ RenderIdle /\ JwtIdle /\ MuxIdle
    /\ PortsIdle /\ VolIdle /\ SessIdle /\ SplitIdle

NextStart ==
    \/ \E id \in RequestIds, require_release \in BOOLEAN, now \in Times :
           StartCheck(id, "user-a", require_release, now) /\ UNCHANGED notStart
    \/ StartPrepareList /\ UNCHANGED notStart
    \/ \E s \in StartSuffixes : StartPrepareCreate(s) /\ UNCHANGED notStart
    \/ \E ok \in BOOLEAN : StartRender(ok) /\ UNCHANGED notStart
    \/ \E translated \in BOOLEAN :
           DeployTranslate(translated) /\ UNCHANGED notStart
    \/ \E accepted \in BOOLEAN : DeployCreate(accepted) /\ UNCHANGED notStart
    \/ DeployDone /\ UNCHANGED notStart
    \/ \E n \in DOMAIN ns :
           NamespaceGone(n) /\ UNCHANGED <<notStart, startVars>>
    \/ \E n \in DOMAIN ns, s \in StartSuffixes :
           DeleteInstance(StopTask, Label(n, "challenge_id"), "user-a",
                          instance_suffix(s))
               /\ UNCHANGED <<notStart, startVars>>

SpecStart == InitStart /\ [][NextStart]_vars

notStop == <<packVars, syncVars, gwVars, startVars, ctlVars, pipeVars,
    checkVars, submitVars, listVars, retrVars, renVars, jwtVars, muxVars,
    portsVars, volVars, sessVars, splitVars>>

InitStop == InstIdle /\ PackIdle /\ SyncIdle /\ GatewayIdle /\ StartIdle
    /\ StopIdle /\ CtlIdle /\ PipeIdle /\ CheckIdle /\ SubmitIdle
    /\ ListIdle /\ RetrieveIdle /\ RenderIdle /\ JwtIdle /\ MuxIdle
    /\ PortsIdle /\ VolIdle /\ SessIdle /\ SplitIdle

NextStop ==
    \/ PrepareList(StartTask, "chall", "user-a")
           /\ UNCHANGED <<notStop, stopVars>>
    \/ \E s \in StopSuffixes :
           PrepareCreate(StartTask, s) /\ UNCHANGED <<notStop, stopVars>>
    \/ \E s \in StopSuffixes :
           DeleteInstance(StartTask, "chall", "user-a", instance_suffix(s))
               /\ UNCHANGED <<notStop, stopVars>>
    \/ \E n \in DOMAIN ns : PodsRunning(n) /\ UNCHANGED <<notStop, stopVars>>
    \/ \E n \in DOMAIN ns : NamespaceGone(n) /\ UNCHANGED <<notStop, stopVars>>
    \/ \E c \in Challenges, a \in Actors : StopList(c, a) /\ UNCHANGED notStop
    \/ \E k \in stopCall.left : StopNext(k) /\ UNCHANGED notStop
    \/ StopDone /\ UNCHANGED notStop

SpecStop == InitStop /\ [][NextStop]_vars

notCtl == <<instVars, packVars, syncVars, startVars, stopVars, pipeVars,
    checkVars, submitVars, listVars, retrVars, renVars, jwtVars, muxVars,
    portsVars, volVars, sessVars, splitVars>>

InitCtl == InstIdle /\ PackIdle /\ SyncIdle /\ GatewayIdle /\ StartIdle
    /\ StopIdle /\ CtlIdle /\ PipeIdle /\ CheckIdle /\ SubmitIdle
    /\ ListIdle /\ RetrieveIdle /\ RenderIdle /\ JwtIdle /\ MuxIdle
    /\ PortsIdle /\ VolIdle /\ SessIdle /\ SplitIdle

NextCtl ==
    \/ \E g \in GatewayKeys, pw \in GatewayPasswords :
           ApplyGateway(g, pw) /\ UNCHANGED notCtl
    \/ \E g \in GatewayKeys : DeleteGateway(g) /\ UNCHANGED notCtl
    \/ \E g \in GatewayKeys : CreateService(g) /\ UNCHANGED notCtl
    \/ \E g \in GatewayKeys : DeleteService(g) /\ UNCHANGED notCtl
    \/ \E g \in GatewayKeys : ControllerReconciles(g) /\ UNCHANGED notCtl

SpecCtl == InitCtl /\ [][NextCtl]_vars

\* the controller keeps serving its queue: a reconcile that would change the
\* registry is not postponed forever
SpecCtlFair ==
    SpecCtl /\ \A g \in GatewayKeys :
                  WF_vars(ControllerReconciles(g) /\ UNCHANGED notCtl)

notPipe == <<instVars, packVars, syncVars, gwVars, startVars, stopVars,
    ctlVars, checkVars, submitVars, listVars, retrVars, renVars, jwtVars,
    muxVars, portsVars, volVars, sessVars, splitVars>>

InitPipe == InstIdle /\ PackIdle /\ SyncIdle /\ GatewayIdle /\ StartIdle
    /\ StopIdle /\ CtlIdle /\ PipeIdle /\ CheckIdle /\ SubmitIdle
    /\ ListIdle /\ RetrieveIdle /\ RenderIdle /\ JwtIdle /\ MuxIdle
    /\ PortsIdle /\ VolIdle /\ SessIdle /\ SplitIdle

NextPipe ==
    \/ \E mode \in {"Piping", "TcpPiping"} :
           SpawnPump(mode) /\ UNCHANGED notPipe
    \/ ClientData /\ UNCHANGED notPipe
    \/ ChannelEof /\ UNCHANGED notPipe
    \/ ClientClose /\ UNCHANGED notPipe
    \/ \E msg \in ChannelMsgs(Len(produced) + 1) :
           BackendProduces(msg) /\ UNCHANGED notPipe
    \/ PumpClientToBackend /\ UNCHANGED notPipe
    \/ PumpBackendToClient /\ UNCHANGED notPipe

SpecPipe == InitPipe /\ [][NextPipe]_vars

\* the runtime keeps polling the spawned task: a branch of its select! that
\* stays ready is taken
SpecPipeFair ==
    /\ SpecPipe
    /\ WF_vars(PumpClientToBackend /\ UNCHANGED notPipe)
    /\ WF_vars(PumpBackendToClient /\ UNCHANGED notPipe)

notCheck == <<instVars, packVars, syncVars, gwVars, startVars, stopVars,
    ctlVars, pipeVars, submitVars, listVars, retrVars, renVars, jwtVars,
    muxVars, portsVars, volVars, sessVars, splitVars>>

InitCheck == InstIdle /\ PackIdle /\ SyncIdle /\ GatewayIdle /\ StartIdle
    /\ StopIdle /\ CtlIdle /\ PipeIdle /\ CheckIdle /\ SubmitIdle
    /\ ListIdle /\ RetrieveIdle /\ RenderIdle /\ JwtIdle /\ MuxIdle
    /\ PortsIdle /\ VolIdle /\ SessIdle /\ SplitIdle

NextCheck ==
    \/ \E repo \in Repos, c \in RepoChallenges, flag \in Flags :
           CheckFlagLoad(repo, <<c>>, flag) /\ UNCHANGED notCheck
    \/ \E repo \in Repos, flag \in Flags :
           CheckFlagLoad(repo, <<>>, flag) /\ UNCHANGED notCheck
    \/ \E c \in RepoChallenges : CheckFlagNext(c) /\ UNCHANGED notCheck
    \/ CheckFlagNone /\ UNCHANGED notCheck

SpecCheck == InitCheck /\ [][NextCheck]_vars

notSubmit == <<instVars, packVars, syncVars, gwVars, startVars, stopVars,
    ctlVars, pipeVars, checkVars, listVars, retrVars, renVars, jwtVars,
    muxVars, portsVars, volVars, sessVars, splitVars>>

InitSubmit == InstIdle /\ PackIdle /\ SyncIdle /\ GatewayIdle /\ StartIdle
    /\ StopIdle /\ CtlIdle /\ PipeIdle /\ CheckIdle /\ SubmitStart
    /\ ListIdle /\ RetrieveIdle /\ RenderIdle /\ JwtIdle /\ MuxIdle
    /\ PortsIdle /\ VolIdle /\ SessIdle /\ SplitIdle

NextSubmit ==
    \E user \in SessionUsers, challenge_id \in SubmittedIds, flag \in Flags,
       up1 \in BOOLEAN, up2 \in BOOLEAN :
        SubmitFlag(user, challenge_id, flag, up1, up2)
            /\ UNCHANGED notSubmit

SpecSubmit == InitSubmit /\ [][NextSubmit]_vars

notList == <<packVars, syncVars, gwVars, startVars, stopVars, ctlVars,
    pipeVars, checkVars, submitVars, retrVars, renVars, jwtVars, muxVars,
    portsVars, volVars, sessVars, splitVars>>

InitList == ListStart /\ PackIdle /\ SyncIdle /\ GatewayIdle /\ StartIdle
    /\ StopIdle /\ CtlIdle /\ PipeIdle /\ CheckIdle /\ SubmitIdle
    /\ ListIdle /\ RetrieveIdle /\ RenderIdle /\ JwtIdle /\ MuxIdle
    /\ PortsIdle /\ VolIdle /\ SessIdle /\ SplitIdle

NextList ==
    \/ \E c \in Challenges, a \in Actors :
           ListInstances(c, a) /\ UNCHANGED notList
    \/ \E pods \in PodLists :
           PodsChange(ListedNamespace, pods) /\ UNCHANGED notList

SpecList == InitList /\ [][NextList]_vars

notRetrieve == <<instVars, packVars, syncVars, gwVars, startVars, stopVars,
    ctlVars, pipeVars, checkVars, submitVars, listVars, renVars, jwtVars,
    muxVars, portsVars, volVars, sessVars, splitVars>>

InitRetrieve == InstIdle /\ PackIdle /\ SyncIdle /\ GatewayIdle /\ StartIdle
    /\ StopIdle /\ CtlIdle /\ PipeIdle /\ CheckIdle /\ SubmitIdle
    /\ ListIdle /\ RetrieveIdle /\ RenderIdle /\ JwtIdle /\ MuxIdle
    /\ PortsIdle /\ VolIdle /\ SessIdle /\ SplitIdle

NextRetrieve ==
    \E filename \in FileNames, require_release \in BOOLEAN, now \in Times,
       attachments \in AttachmentLists, release_time \in ReleaseTimes,
       loads \in BOOLEAN, renders \in BOOLEAN, on_disk \in BOOLEAN :
        RetrieveFile([filename |-> filename,
                      require_release |-> require_release, now |-> now,
                      attachments |-> attachments,
                      release_time |-> release_time, loads |-> loads,
                      renders |-> renders, on_disk |-> on_disk])
            /\ UNCHANGED notRetrieve

SpecRetrieve == InitRetrieve /\ [][NextRetrieve]_vars

notRender == <<instVars, packVars, syncVars, gwVars, startVars, stopVars,
    ctlVars, pipeVars, checkVars, submitVars, listVars, retrVars, jwtVars,
    muxVars, portsVars, volVars, sessVars, splitVars>>

InitRender == InstIdle /\ PackIdle /\ SyncIdle /\ GatewayIdle /\ StartIdle
    /\ StopIdle /\ CtlIdle /\ PipeIdle /\ CheckIdle /\ SubmitIdle
    /\ ListIdle /\ RetrieveIdle /\ RenderIdle /\ JwtIdle /\ MuxIdle
    /\ PortsIdle /\ VolIdle /\ SessIdle /\ SplitIdle

NextRender ==
    \/ \E fs \in SourceTrees : RenderStart(fs) /\ UNCHANGED notRender
    \/ \E name \in EntryNames : RenderEntry(name) /\ UNCHANGED notRender
    \/ RenderReturn /\ UNCHANGED notRender

SpecRender == InitRender /\ [][NextRender]_vars

notJwt == <<instVars, packVars, syncVars, gwVars, startVars, stopVars,
    ctlVars, pipeVars, checkVars, submitVars, listVars, retrVars, renVars,
    muxVars, portsVars, volVars, sessVars, splitVars>>

InitJwt == InstIdle /\ PackIdle /\ SyncIdle /\ GatewayIdle /\ StartIdle
    /\ StopIdle /\ CtlIdle /\ PipeIdle /\ CheckIdle /\ SubmitIdle
    /\ ListIdle /\ RetrieveIdle /\ RenderIdle /\ JwtStart /\ MuxIdle
    /\ PortsIdle /\ VolIdle /\ SessIdle /\ SplitIdle

NextJwt ==
    \/ ParseAndValidateJwt /\ UNCHANGED notJwt
    \/ ClockTicks /\ UNCHANGED notJwt

SpecJwt == InitJwt /\ [][NextJwt]_vars

notMux == <<instVars, packVars, syncVars, gwVars, startVars, stopVars,
    ctlVars, pipeVars, checkVars, submitVars, listVars, retrVars, renVars,
    jwtVars, portsVars, volVars, sessVars, splitVars>>

InitMux == InstIdle /\ PackIdle /\ SyncIdle /\ GatewayIdle /\ StartIdle
    /\ StopIdle /\ CtlIdle /\ PipeIdle /\ CheckIdle /\ SubmitIdle
    /\ ListIdle /\ RetrieveIdle /\ RenderIdle /\ JwtIdle /\ MuxIdle
    /\ PortsIdle /\ VolIdle /\ SessIdle /\ SplitIdle

NextMux ==
    \/ \E ch \in ChannelIds, kind \in ChannelKinds :
           StartBackendSessionOn(ch, kind) /\ UNCHANGED notMux
    \/ \E ch \in ChannelIds : OpenDirectTcpipOn(ch) /\ UNCHANGED notMux
    \/ \E ch \in ChannelIds, bytes \in Chunks :
           DataOn(ch, bytes) /\ UNCHANGED notMux
    \/ \E ch \in ChannelIds : ChannelEofOn(ch) /\ UNCHANGED notMux

SpecMux == InitMux /\ [][NextMux]_vars

GatewayNames ==
    { <<PortsSvcId, "-", p>> : p \in TargetPorts \cup {"2222"} }

ReturnedUsers ==
    { connInfo[k].ssh_username[1] :
        k \in { k \in DOMAIN connInfo : connInfo[k].ssh_username # <<>> } }

notPorts == <<instVars, packVars, syncVars, gwVars, startVars, stopVars,
    ctlVars, pipeVars, checkVars, submitVars, listVars, retrVars, renVars,
    jwtVars, muxVars, volVars, sessVars, splitVars>>

InitPorts == InstIdle /\ PackIdle /\ SyncIdle /\ GatewayIdle /\ StartIdle
    /\ StopIdle /\ CtlIdle /\ PipeIdle /\ CheckIdle /\ SubmitIdle
    /\ ListIdle /\ RetrieveIdle /\ RenderIdle /\ JwtIdle /\ MuxIdle
    /\ PortsStart /\ VolIdle /\ SessIdle /\ SplitIdle

NextPorts ==
    \/ StartPorts /\ UNCHANGED notPorts
    \/ \E name \in GatewayNames :
           ReconcileSshGateway(name) /\ UNCHANGED notPorts
    \/ \E name \in GatewayNames :
           DeleteSshGateway(name) /\ UNCHANGED notPorts
    \/ \E user \in ReturnedUsers, password \in {SshPassword, "guess"} :
           LoginAtGateway(user, password) /\ UNCHANGED notPorts

SpecPorts == InitPorts /\ [][NextPorts]_vars

notVol == <<instVars, packVars, syncVars, gwVars, startVars, stopVars,
    ctlVars, pipeVars, checkVars, submitVars, listVars, retrVars, renVars,
    jwtVars, muxVars, portsVars, sessVars, splitVars>>

InitVol == InstIdle /\ PackIdle /\ SyncIdle /\ GatewayIdle /\ StartIdle
    /\ StopIdle /\ CtlIdle /\ PipeIdle /\ CheckIdle /\ SubmitIdle
    /\ ListIdle /\ RetrieveIdle /\ RenderIdle /\ JwtIdle /\ MuxIdle
    /\ PortsIdle /\ VolStart /\ SessIdle /\ SplitIdle

NextVol == DeployVolumes /\ UNCHANGED notVol

SpecVol == InitVol /\ [][NextVol]_vars

notSess == <<instVars, packVars, syncVars, gwVars, startVars, stopVars,
    ctlVars, pipeVars, checkVars, submitVars, listVars, retrVars, renVars,
    jwtVars, muxVars, portsVars, volVars, splitVars>>

InitSess == InstIdle /\ PackIdle /\ SyncIdle /\ GatewayIdle /\ StartIdle
    /\ StopIdle /\ CtlIdle /\ PipeIdle /\ CheckIdle /\ SubmitIdle
    /\ ListIdle /\ RetrieveIdle /\ RenderIdle /\ JwtIdle /\ MuxIdle
    /\ PortsIdle /\ VolIdle /\ SessIdle /\ SplitIdle

NextSess ==
    \/ CreateSession /\ UNCHANGED notSess
    \/ \E p \in SessionTasks, jti \in issued :
           RefreshSelect(p, jti) /\ UNCHANGED notSess
    \/ \E p \in SessionTasks : RefreshUpdate(p) /\ UNCHANGED notSess
    \/ \E p \in SessionTasks, jti \in issued :
           EndSession(p, jti) /\ UNCHANGED notSess

SpecSess == InitSess /\ [][NextSess]_vars

notSplit == <<instVars, packVars, syncVars, gwVars, startVars, stopVars,
    ctlVars, pipeVars, checkVars, submitVars, listVars, retrVars, renVars,
    jwtVars, muxVars, portsVars, volVars, sessVars>>

InitSplit == InstIdle /\ PackIdle /\ SyncIdle /\ GatewayIdle /\ StartIdle
    /\ StopIdle /\ CtlIdle /\ PipeIdle /\ CheckIdle /\ SubmitIdle
    /\ ListIdle /\ RetrieveIdle /\ RenderIdle /\ JwtIdle /\ MuxIdle
    /\ PortsIdle /\ VolIdle /\ SessIdle /\ SplitStart

NextSplit == SplitWithQuotes /\ UNCHANGED notSplit

SpecSplit == InitSplit /\ [][NextSplit]_vars

----------------------------------------------------------------------------
(* What the claims speak of, read off the cluster state directly *)

HasLabels(n, c, a) ==
    /\ DOMAIN ns[n].labels = {"challenge_id", "actor_id"}
    /\ ns[n].labels.challenge_id = c
    /\ ns[n].labels.actor_id = a

\* all namespaces of the pair, Terminating ones included
PairNs(c, a) == {n \in DOMAIN ns : HasLabels(n, c, a)}

\* the pair's namespaces that are Creating or Running
ActiveNs(c, a) == {n \in PairNs(c, a) : ~ns[n].deletion_timestamp}

\* task p returns from, or moves on in, a prepare call
PrepareStep(p) ==
    /\ pc[p] = "idle"
    /\ \/ pc'[p] = "loop"
       \/ ret'[p] # ret[p] /\ ret'[p] \in {"QuotaExceeded", "AlreadyActive"}

CreateStep(p) == pc[p] = "loop" /\ pc'[p] = "idle"

\* task p returns from a delete call
DeleteStep(p) ==
    /\ pc[p] = "idle"
    /\ pc'[p] = "idle"
    /\ ret'[p] # ret[p] \/ ns' # ns

OwnedBy(n, a) == "actor_id" \in DOMAIN ns[n].labels /\ ns[n].labels.actor_id = a

\* C1: for every (challenge_id, actor) at most one instance is Creating or Running,
\* and the pair never has more than 5 instances counting Terminating ones.
C1_OneActiveAtMostFive ==
    \A c \in Challenges, a \in Actors :
        /\ Cardinality(ActiveNs(c, a)) <= 1
        /\ Cardinality(PairNs(c, a)) <= 5

\* C8 as stated: whenever a Running or Creating instance of the pair exists, a
\* prepare for the pair fails as already active and creates no namespace.
C8_ActiveMeansAlreadyActive ==
    [][\A p \in Procs, c \in Challenges, a \in Actors :
          (PrepareStep(p) /\ PrepareList(p, c, a) /\ ActiveNs(c, a) # {})
              => (ret'[p] = "AlreadyActive" /\ pc'[p] = "idle" /\ ns' = ns)]_vars

\* C8 amended: whenever a Running or Creating instance of the pair exists, a prepare
\* for the pair creates no namespace and fails: as quota exceeded when the pair has
\* five or more instances (Terminating included), as already active otherwise.
C8_ActiveMeansRejected ==
    [][\A p \in Procs, c \in Challenges, a \in Actors :
          (PrepareStep(p) /\ PrepareList(p, c, a) /\ ActiveNs(c, a) # {})
              => /\ pc'[p] = "idle"
                 /\ ns' = ns
                 /\ ret'[p] = IF Cardinality(PairNs(c, a)) >= 5
                              THEN "QuotaExceeded" ELSE "AlreadyActive"]_vars

C8_Witness ==
    \E p \in Procs :
        /\ pc[p] = "idle"
        /\ ret[p] = "AlreadyActive"
        /\ \E n \in ActiveNs("chall", "user-a") : ns[n].pods # <<>>

C10_DeleteOnlyOwn ==
    [][\A p \in Procs :
          DeleteStep(p) =>
              \A c \in Challenges, a \in Actors, i \in InstanceIds :
                  LET n == instance_ns_name(c, i)
                  IN  /\ (/\ n \in DOMAIN ns
                           /\ ~OwnedBy(n, a)
                           /\ ~(ns' = ns /\ ret'[p] = "NotOwner"))
                            => ~DeleteInstance(p, c, a, i)
                      /\ (ns' # ns /\ ~(n \in DOMAIN ns /\ OwnedBy(n, a)))
                            => ~DeleteInstance(p, c, a, i)]_vars

C10_Witness ==
    /\ \E p \in Procs : ret[p] = "NotOwner"
    /\ ForeignName \in DOMAIN ns
    /\ ~ns[ForeignName].deletion_timestamp
    /\ \E n \in PairNs("chall", "user-a") : ns[n].deletion_timestamp

\* What an archive entry gives away: the flag or the validation function
CarriesSecret(e) ==
    \/ e.content.metadata.flag # None
    \/ e.content.metadata.flag_validation_fn # None

\* C2: a finished safe-pack archive holds the top-level docker-compose.yml
\* only in sanitized form: no entry under that path carries the flag or the
\* flag validation function.
C2_ComposeOnlySanitized ==
    packState = "done" =>
        \A i \in DOMAIN archive :
            archive[i].path = ComposePath => ~CarriesSecret(archive[i])

\* what the reader saw of a directory sync_repo is replacing
SawWhileReplacing ==
    /\ before # NotCalled
    /\ HasGit(before[1])
    /\ saw # NotLooked

\* C4: while sync_repo replaces an existing working tree, a reader of the
\* repository directory sees the complete old tree or the complete new tree,
\* never a missing or partly filled directory.
C4_ReaderSeesOldOrNew ==
    SawWhileReplacing => saw[1] \in {before[1], Tree(NewCommit)}

\* C5: when sync_repo returns an error, whatever the step that failed, the
\* repository directory holds exactly the tree it held before the call.
C5_ErrorLeavesDestUnchanged ==
    (syncPc = "idle" /\ syncRet \in {"Err", "DirExists"}) => dest = before[1]


\* a step of auth_password on connection c
AuthStep(c) ==
    /\ gwLast'.op = "auth_password"
    /\ gwLast'.conn = c
    /\ backends' = backends

\* the registry entry admits the password: present, and the gateway
\* password unset or equal
Admits(registry, user, password) ==
    /\ user \in DOMAIN registry
    /\ registry[user].login_pass \in { <<>>, <<password>> }

\* C3: a password authentication is accepted iff the registry holds an entry
\* for the login name at that moment whose gateway_password is unset or equal
\* to the supplied password; selected_backend is stored only on acceptance;
\* a connection whose attempts were all rejected has no backend session.
C3_AcceptIffRegistered ==
    [][\A c \in Conns :
         /\ AuthStep(c) =>
              /\ gwLast'.result = "Accept" <=>
                    Admits(backends, conn'[c].authenticated_user[1],
                           conn'[c].authenticated_pass[1])
              /\ gwLast'.result # "Accept" =>
                    conn'[c].selected_backend = conn[c].selected_backend
         /\ "Accept" \notin conn'[c].replies =>
              /\ conn'[c].selected_backend = <<>>
              /\ conn'[c].backend_session = <<>>]_vars

\* one connection was refused a wrong password, then accepted and given a
\* backend session; the other, refused only, asked for a shell in vain
C3_Witness ==
    \E c, d \in Conns :
        /\ conn[c].replies = {"Reject", "Accept"}
        /\ conn[c].selected_backend # <<>>
        /\ conn[c].selected_backend[1].login_pass # <<>>
        /\ conn[c].backend_session # <<>>
        /\ conn[d].replies = {"Reject"}
        /\ gwLast = [op |-> "shell_request", conn |-> d,
                     result |-> "No backend selected"]

\* the order the specification gives for the kinds of object
KindOrder ==
    <<"Deployment", "Service", "IngressRoute", "IngressRouteTCP",
      "PersistentVolumeClaim", "SSHGateway">>

KindRank(kind) == CHOOSE i \in DOMAIN KindOrder : KindOrder[i] = kind

\* C6: objects are created in the order Deployment, Service, IngressRoute,
\* IngressRouteTCP, PVC, SSHGateway: an object is created only when every
\* object of each earlier kind has been, and after a failed creation the
\* request creates nothing more.
C6_FixedCreationOrder ==
    [][/\ \A i, j \in DOMAIN created' :
             i < j => KindRank(created'[i].kind) <= KindRank(created'[j].kind)
       /\ \A i \in DOMAIN created', k \in DOMAIN KindOrder :
             k < KindRank(created'[i].kind) => plan'[KindOrder[k]] = <<>>
       /\ (failed # <<>> /\ failed' # <<>>) => created' = created]_vars

\* a request that created objects of all six kinds, two of them Services
C6_Witness ==
    /\ startRet = "Ok"
    /\ { created[i].kind : i \in DOMAIN created } =
           { KindOrder[k] : k \in DOMAIN KindOrder }
    /\ Len(created) > Len(KindOrder)

\* what the three checks are to turn away, read off the request
HasForeignChar(id) ==
    \E i \in DOMAIN id :
        id[i] \notin LowercaseLetters
                       \cup { "0", "1", "2", "3", "4", "5", "6", "7", "8", "9" }
                       \cup { "-", "_" }

NothingToStart(id) ==
    id \in DOMAIN Repo /\ Repo[id].services = <<>> /\ Repo[id].vms = {}

NotYetReleased(r) ==
    /\ r.require_release
    /\ r.challenge_id \in DOMAIN Repo
    /\ Repo[r.challenge_id].release_time # <<>>
    /\ Repo[r.challenge_id].release_time[1] > r.now

ToBeRejected(r) ==
    \/ HasForeignChar(r.challenge_id)
    \/ NothingToStart(r.challenge_id)
    \/ NotYetReleased(r)

\* C7: a start request whose challenge id has a character outside lowercase
\* letters, digits, '-' and '_', whose compose document declares neither a
\* service nor a VM, or that requires release before the release time,
\* creates no namespace and no object; prepare is reached only when all
\* three checks pass.
C7_RejectedCreatesNothing ==
    [][/\ (startPc = "idle" /\ startVars' # startVars /\ ToBeRejected(req')) =>
             /\ startPc' = "idle"
             /\ startRet' \in {"InvalidArgument", "FailedPrecondition"}
             /\ ns' = ns
             /\ created' = <<>>
       /\ startPc' # "idle" => ~ToBeRejected(req')
       /\ (~(DOMAIN ns' \subseteq DOMAIN ns) \/ Len(created') > Len(created)) =>
             ~ToBeRejected(req')]_vars

\* an unreleased challenge was refused while nothing exists in the cluster
C7_Witness ==
    /\ startPc = "idle"
    /\ startRet = "FailedPrecondition"
    /\ req.challenge_id = SoonId
    /\ req.require_release
    /\ ns = <<>>
    /\ created = <<>>

\* the listed namespaces that the list reported as Creating or Running
ReportedActive ==
    { n \in DOMAIN stopCall.reported :
        stopCall.reported[n] \in {"Creating", "Running"} }

C12_DeletedIsUnregistered ==
    \A g \in GatewayKeys :
        (gateways[g].phase = "deleting")
            ~> (backend_name(g[1], g[2]) \notin DOMAIN backends)


\* either side has sent EOF or Close
EitherSideEnded ==
    \/ clientEof
    \/ clientChan = "closed" /\ ~\E i \in DOMAIN clientOut :
                                     clientOut[i].call = "close"
    \/ \E i \in DOMAIN produced : produced[i].type \in {"Eof", "Close"}

\* the session is over: the task has ended (which drops its backend channel)
\* and the client's channel is closed
SessionClosed ==
    /\ pump = "done"
    /\ clientChan = "closed"

\* C13: in Piping or TcpPiping, once the client or the backend has sent EOF
\* or Close, the session eventually reaches Closed, with the client-side and
\* the backend-side channel both closed.
C13_EitherEndClosesBoth ==
    (pump = "running" /\ EitherSideEnded) ~> SessionClosed


\* a sequence of numbers that goes strictly up
Ascending(q) == \A i, j \in DOMAIN q : i < j => q[i] < q[j]

IsDataCall(c) == c.call \in {"data", "extended_data"}

IsExitCall(c) == c.call = "exit_status_request"

IsExitMsg(m) == m.type = "ExitStatus"

ValsOf(q) == [i \in DOMAIN q |-> q[i].val]

\* C14: within one session the backend is handed the client's chunks in the
\* order the data callback received them and none twice, and the client is
\* sent the backend's data and extended-data messages in the order the
\* backend channel produced them, each as the kind it was produced.
C14_OrderKeptBothWays ==
    /\ Ascending(backendIn)
    /\ \A i \in DOMAIN backendIn : backendIn[i] \in DOMAIN received
    /\ Ascending(ValsOf(SelectSeq(clientOut, IsDataCall)))
    /\ \A i \in DOMAIN clientOut :
          IsDataCall(clientOut[i]) =>
              /\ clientOut[i].val \in 1..taken
              /\ produced[clientOut[i].val].type =
                     (IF clientOut[i].call = "data" THEN "Data"
                      ELSE "ExtendedData")

\* two chunks reached the backend and two messages of different kinds
\* reached the client
C14_Witness ==
    /\ backendIn = <<1, 2>>
    /\ \E i, j \in DOMAIN clientOut :
          /\ i < j
          /\ IsDataCall(clientOut[i]) /\ IsDataCall(clientOut[j])
          /\ clientOut[i].call # clientOut[j].call

\* C15: in Piping the gateway passes every exit status the backend reported
\* on to the client, same value and same order, and a close of the client's
\* channel is the last thing it does on it, so each reported exit status is
\* forwarded before the close.
C15_ExitStatusBeforeClose ==
    pipeMode = "Piping" =>
        /\ ValsOf(SelectSeq(clientOut, IsExitCall))
               = ValsOf(SelectSeq(SubSeq(produced, 1, taken), IsExitMsg))
        /\ \A i \in DOMAIN clientOut :
              clientOut[i].call = "close" => i = Len(clientOut)
        /\ pump = "done" /\ clientOut # <<>>
               /\ clientOut[Len(clientOut)].call = "close"
                 => taken = Len(produced)

\* the backend exited with status 1 and closed; the client got both
C15_Witness ==
    /\ pipeMode = "Piping"
    /\ \E i \in DOMAIN clientOut :
          /\ clientOut[i].call = "exit_status_request"
          /\ clientOut[i].val = 1
          /\ i < Len(clientOut)
    /\ clientOut[Len(clientOut)].call = "close"


\* the candidates of the call in flight and those whose validator accepts
\* or fails on its flag
Candidates == DOMAIN checkCall.challenges

Validating ==
    { c \in Candidates :
        check_flag(checkCall.challenges[c], checkCall.flag)
            = [kind |-> "Ok", val |-> TRUE] }

Throwing ==
    { c \in Candidates :
        check_flag(checkCall.challenges[c], checkCall.flag).kind = "Err" }

CheckReturned == checkPc = "idle" /\ checkRet.kind # "none"
                     /\ checkRet.on # <<"load">>

\* C16: a CheckFlag over N candidates, of which exactly one validates the
\* flag and N > 1, returns that one's id whatever the other validators
\* throw; it returns a validator's error iff N = 1 and that validator
\* fails, and with N > 1 every failure met is logged and the scan goes on
\* to a match or to the end.
C16_ScanSurvivesErrors ==
    CheckReturned =>
        LET N == Cardinality(Candidates) IN
        /\ (N > 1 /\ Cardinality(Validating) = 1) =>
               /\ checkRet.kind = "Ok"
               /\ checkRet.solved_challenge_id \in { <<c>> : c \in Validating }
        /\ checkRet.kind = "Internal" <=> (N = 1 /\ Throwing # {})
        /\ N > 1 =>
               /\ checkCall.logged = { c \in Throwing :
                     \E i \in DOMAIN checkCall.scanned :
                         checkCall.scanned[i] = c }
               /\ checkRet.solved_challenge_id = <<>> => checkCall.left = {}

\* three candidates, the first two scanned threw, the third validated
C16_Witness ==
    /\ CheckReturned
    /\ Cardinality(Candidates) = 3
    /\ Cardinality(Validating) = 1
    /\ Cardinality(checkCall.logged) = 2
    /\ checkRet.kind = "Ok"
    /\ checkRet.solved_challenge_id # <<>>


\* the k-th submission came from a logged-in user with a well-formed id
Admissible(k) ==
    /\ submissions[k].user # <<>>
    /\ submissions[k].challenge_id # <<>>
    /\ ~HasForeignChar(submissions[k].challenge_id)

\* the challenges of the k-th submission's repository whose validator
\* accepts its flag, and whether the targeted check or the scan finds one
AcceptingFor(k) ==
    { c \in DOMAIN submitRepo :
        check_flag(submitRepo[c], submissions[k].flag)
            = [kind |-> "Ok", val |-> TRUE] }

TargetedMatches(k) ==
    submissions[k].up1 /\ submissions[k].challenge_id \in AcceptingFor(k)

ScanMatches(k) == submissions[k].up2 /\ AcceptingFor(k) # {}

SolvesOf(k) == { r \in solves : r.id = k }

InvalidOf(k) == { r \in invalid_submissions : r.id = k }

StateByAllPods(n) ==
    IF ns[n].deletion_timestamp \/ ns[n].phase = "Terminating"
    THEN "Terminating"
    ELSE IF \A i \in DOMAIN ns[n].pods :
                ns[n].pods[i] \in {"Running", "Succeeded"}
         THEN "Running" ELSE "Creating"

\* the same, a namespace without pods being Creating
StateBySomePods(n) ==
    IF ns[n].pods = <<>> /\ StateByAllPods(n) = "Running"
    THEN "Creating" ELSE StateByAllPods(n)

\* the namespaces a listing is to report: those labelled for its pair
LabelledFor(c, a) ==
    { n \in DOMAIN ns : ns[n].labels = [challenge_id |-> c, actor_id |-> a] }

\* C18 as stated: list reports, for every namespace of the pair and every
\* (possibly empty) set of pods in it, Terminating if the deletion timestamp
\* is set or the phase is Terminating, otherwise Running if all pods have
\* phase Running or Succeeded, otherwise Creating.
C18_RunningIfAllPodsRun ==
    listRet.called =>
        LET listed == LabelledFor(listRet.challenge_id, listRet.actor) IN
        /\ Cardinality(DOMAIN listRet.instances) = Cardinality(listed)
        /\ \A n \in listed :
              /\ n \in DOMAIN listRet.instances
              /\ listRet.instances[n] = StateByAllPods(n)

\* C18: list reports, for every namespace of the pair, Terminating if the
\* deletion timestamp is set or the phase is Terminating, otherwise Running
\* if the namespace has at least one pod and all its pods have phase Running
\* or Succeeded, otherwise Creating (so also with no pod at all).
C18_RunningIfSomeAndAllPodsRun ==
    listRet.called =>
        LET listed == LabelledFor(listRet.challenge_id, listRet.actor) IN
        /\ Cardinality(DOMAIN listRet.instances) = Cardinality(listed)
        /\ \A n \in listed :
              /\ n \in DOMAIN listRet.instances
              /\ listRet.instances[n] = StateBySomePods(n)

\* a listing reported Running for a namespace with a Running and a Succeeded
\* pod
C18_Witness ==
    /\ listRet.called
    /\ ListedNamespace \in DOMAIN ns
    /\ ns[ListedNamespace].pods = <<"Running", "Succeeded">>
    /\ ListedNamespace \in DOMAIN listRet.instances
    /\ listRet.instances[ListedNamespace] = "Running"


\* C19: RetrieveFile reads and returns file bytes only for a filename that
\* is in the challenge metadata's attachments list; a filename that is not
\* is turned away without any file being read for it, and where it is the
\* allowlist that turns the request away the status is InvalidArgument.
C19_OnlyListedFilesRead ==
    retrRet.code # "none" =>
        /\ (retrRet.code = "Ok" \/ retrReads # {}) =>
               /\ retrCall.filename \in retrCall.attachments
               /\ retrReads = {retrCall.filename}
        /\ retrCall.filename \notin retrCall.attachments =>
               /\ retrRet.code # "Ok"
               /\ retrReads = {}
        /\ retrRet.at = "allowlist" => retrRet.code = "InvalidArgument"


\* C20: for every source tree, symlinks to files or directories outside it
\* included, a render that does not fail has read only paths whose canonical
\* form lies inside the canonical source root (helper scripts included);
\* the renderer writes only inside the destination directory; and the
\* containment of a path was tested before anything at that path was read.
C20_RenderStaysInside ==
    /\ renRet = "Ok" =>
          \A r \in renReads :
              IsPrefix(canonicalize(renFs, SourceRoot), r.canon)
    /\ \A w \in renWrites : IsPrefix(DestRoot, w)
    /\ \A r \in renReads : r.checked


\* the token was signed, as it stands, by the signing key of the key it is
\* checked against
SignedForKey ==
    /\ Len(jwtToken) = 3
    /\ verify(jwtKey, <<jwtToken[1], ".", jwtToken[2]>>,
              BASE64_decode(jwtToken[3]))

\* the payload that was signed into the token, as flat JSON
SignedJson == BASE64_decode(jwtToken[2])

TimelyAt(t) == SignedJson["nbf"][2] <= t /\ t <= SignedJson["exp"][2]

JwtReturned == jwtRet.kind # None

\* an accepted token yields the signed subject and custom fields; a token
\* generate_jwt made under another key fails with InvalidSignature; one made
\* under this key for the payload type asked for fails with InvalidTime past
\* its exp
JwtOutcomes ==
    /\ jwtRet.kind = "Ok" =>
          /\ jwtRet.val[1].sub = SignedJson["sub"][2]
          /\ \A f \in DOMAIN jwtRet.val[1].custom_fields :
                 jwtRet.val[1].custom_fields[f] = SignedJson[f][2]
    /\ (jwtToken \in GeneratedJwts /\ ~SignedForKey) =>
          jwtRet.kind = "InvalidSignature"
    /\ (jwtToken \in GeneratedJwts /\ SignedForKey
          /\ InnerFields[jwtInner] \subseteq DOMAIN SignedJson
          /\ jwtRet.at > SignedJson["exp"][2]) =>
          jwtRet.kind = "InvalidTime"

\* C21 as stated: parse_and_validate_jwt accepts a token iff it was signed by
\* the signing key that matches the verifying key and nbf <= t <= exp at the
\* time t of the call; and the outcomes above.
C21_AcceptIffSignedAndTimely ==
    JwtReturned =>
       /\ jwtRet.kind = "Ok" <=> (SignedForKey /\ TimelyAt(jwtRet.at))
       /\ JwtOutcomes

\* C21: parse_and_validate_jwt::<T> accepts a token iff it was signed by the
\* signing key that matches the verifying key, its payload has the fields of
\* the payload type T, and nbf <= t <= exp at the time t of the call; an
\* accepted token yields the signed subject and custom fields, a token signed
\* by another key fails with InvalidSignature and one past its exp with
\* InvalidTime.
C21_AcceptIffSignedTypedAndTimely ==
    JwtReturned =>
       /\ jwtRet.kind = "Ok" <=>
             /\ SignedForKey
             /\ InnerFields[jwtInner] \subseteq DOMAIN SignedJson
             /\ TimelyAt(jwtRet.at)
       /\ JwtOutcomes

\* a token accepted in the last second of its validity, some time after it
\* was issued
C21_Witness ==
    /\ jwtRet.kind = "Ok"
    /\ jwtRet.at = SignedJson["exp"][2]
    /\ jwtRet.at > 0


\* C22: on a connection with several session or direct-tcpip channels, every
\* piece of data the client has sent on a channel (before that channel's
\* EOF) went to the backend channel opened for that same client channel:
\* not to the backend of another channel, and not nowhere.
C22_DataReachesOwnBackend ==
    \A f \in forwarded :
        f.into = <<chanBackend[f.sent_on].backend_channel>>


\* the resources that are live and reconciled
LiveReconciled ==
    { n \in DOMAIN sshCRs : ~sshCRs[n].deleting /\ n \in reconciled }

\* C23: the BackendRegistry holds a separate entry for each live, reconciled
\* SSHGateway resource: the login name of the resource is registered with
\* the backend of that resource, and no two such resources share a login
\* name, whatever was reconciled or removed in between.
C23_SeparateEntryPerGateway ==
    /\ \A n \in LiveReconciled :
          LET key == backend_name(sshCRs[n].spec.backend_service, PortsNs)
          IN  /\ key \in DOMAIN backendRegistry
              /\ backendRegistry[key] = RegisteredConfig(sshCRs[n].spec, PortsNs)
    /\ \A n, m \in LiveReconciled :
          n # m => backend_name(sshCRs[n].spec.backend_service, PortsNs)
                     # backend_name(sshCRs[m].spec.backend_service, PortsNs)


\* the SSHGateway resources the translator emits for the service
EmittedGateways ==
    SeqRange(as_ssh_gateways(PortsSvcId, svcPorts, <<SshPassword>>))

SshGatedEntries ==
    { k \in DOMAIN connInfo : connInfo[k].ssh_username # <<>> }

\* C24: for every SSH-gated port of a started instance, the ssh_username of
\* its connection info is the registry key under which the controller
\* installs the backend of the resource emitted for that port; and a login
\* with the returned username and password, made while that resource is
\* live and reconciled, is accepted.
C24_UsernameIsRegistryKey ==
    \A k \in SshGatedEntries :
        /\ \E g \in EmittedGateways :
              /\ g.for_port = connInfo[k].for_port
              /\ connInfo[k].ssh_username[1] =
                     backend_name(g.spec.backend_service, PortsNs)
        /\ \A g \in EmittedGateways :
              (/\ g.for_port = connInfo[k].for_port
               /\ loginRet.user = connInfo[k].ssh_username
               /\ <<loginRet.password>> = connInfo[k].ssh_password
               /\ g.name \in loginRet.live)
                  => loginRet.result = "Accept"

\* C25: every non-UDP entry of the connection info addresses something the
\* translator emitted for the same port: a route of the IngressRoute or the
\* IngressRouteTCP whose Host or HostSNI names the entry's host, or, for an
\* SSH-gated port, an SSHGateway resource.
C25_InfoAddressesEmittedRoute ==
    \A k \in DOMAIN connInfo :
        connInfo[k].protocol # "Udp" =>
            \/ \E r \in routes :
                  /\ r.for_port = connInfo[k].for_port
                  /\ r.host = connInfo[k].host
            \/ /\ connInfo[k].ssh_username # <<>>
               /\ \E g \in EmittedGateways :
                     g.for_port = connInfo[k].for_port


\* the namespace delete_instance addresses for an instance id
AddressedBy(challenge_id, instance_id) ==
    instance_ns_name(challenge_id, instance_id)

\* C26: every instance name get_instances has returned for a namespace of
\* the pair, handed to delete_instance as instance_id with the same
\* challenge id, addresses that same namespace.
C26_ListedNameAddressesNamespace ==
    \A n \in DOMAIN stopCall.reported :
        AddressedBy(stopCall.challenge_id,
                    InstanceKey(stopCall.challenge_id, stopCall.actor, n)) = n


\* a step of the StartChallengeInstance handler
StartHandlerStep == startVars' # startVars

\* C27: a StartChallengeInstance does not roll its namespace back.  The step
\* of prepare_instance that creates the namespace leaves it listed for the
\* pair as a non-Terminating instance; no later step of the handler, the
\* failing ones of rendering, translation and object creation included,
\* changes any namespace; a namespace of the request's pair that is not
\* marked for deletion is listed as non-Terminating; and while one is, every
\* further StartChallengeInstance of the pair is rejected and creates nothing.
C27_FailedStartKeepsNamespace ==
    [][/\ (StartHandlerStep /\ startPc = "create_ns" /\ startPc' = "render")
            => \E n \in DOMAIN ns' \ DOMAIN ns :
                  /\ n \in ListedNs(req.challenge_id, req.actor)'
                  /\ InstanceStateOf(req.challenge_id, n)' # "Terminating"
       /\ (StartHandlerStep /\ startPc \in {"render", "translate", "deploy"})
            => ns' = ns
       /\ \A n \in ActiveNs(req.challenge_id, req.actor) :
            /\ n \in ListedNs(req.challenge_id, req.actor)
            /\ InstanceStateOf(req.challenge_id, n) # "Terminating"
       /\ (/\ StartHandlerStep
           /\ startPc = "prepare"
           /\ ActiveNs(req.challenge_id, req.actor) # {})
            => /\ startPc' = "idle"
               /\ startRet' = "Internal"
               /\ ns' = ns]_vars

\* a start of a challenge whose deployment always fails has left its
\* namespace behind, and the next start of the pair was refused
C27_Witness ==
    /\ req.challenge_id = BrokenId
    /\ startPc = "idle"
    /\ startRet = "Internal"
    /\ ret[StartTask] = "AlreadyActive"
    /\ \E n \in ActiveNs(BrokenId, req.actor) : ns[n].pods = <<>>


\* the claim names the pod volumes of the emitted Deployment refer to
ReferencedClaims ==
    { volRet.volumes[i].claim_name[1] :
        i \in { i \in DOMAIN volRet.volumes :
                  volRet.volumes[i].claim_name # <<>> } }

\* C28: every PersistentVolumeClaim name a pod volume of the emitted
\* Deployment refers to, for a named volume or for a bind under ./data/, is
\* the name of a claim deploy_challenge creates for the instance.
C28_ReferencedClaimsAreCreated ==
    volRet.kind = "Ok" => ReferencedClaims \subseteq volRet.pvcs


\* C29: a refresh token is single-use.  No refresh_session that was called
\* after a refresh_session or an end_session had succeeded with the same
\* token has succeeded, and of the refresh_session calls with one token, in
\* whatever order their steps ran, at most one has succeeded.
C29_RefreshTokenSingleUse ==
    /\ \A w \in wins : ~w.late
    /\ \A w, v \in wins : w.jti = v.jti => w.task = v.task


\* position i of the input follows a backslash that is itself not escaped
RECURSIVE EscapedAt(_, _)
EscapedAt(input, i) ==
    i > 1 /\ input[i - 1] = "\\" /\ ~EscapedAt(input, i - 1)

\* the quote that is open before position i, "" when there is none
RECURSIVE OpenQuote(_, _)
OpenQuote(input, i) ==
    IF i = 1 THEN ""
    ELSE LET q == OpenQuote(input, i - 1)
             c == input[i - 1]
         IN  IF EscapedAt(input, i - 1) \/ c \notin QuoteChars THEN q
             ELSE IF q = "" THEN c
             ELSE IF q = c THEN ""
             ELSE q

\* whitespace outside quotes, not escaped: where the input is split
SplitsAt(input, i) ==
    /\ ~EscapedAt(input, i)
    /\ input[i] \in WhitespaceChars
    /\ OpenQuote(input, i) = ""

\* the characters that are kept: an escaped one, and otherwise anything but
\* a backslash, a quote that opens or closes a segment, and a split point
KeptAt(input, i) ==
    \/ EscapedAt(input, i)
    \/ /\ input[i] # "\\"
       /\ input[i] \in QuoteChars =>
             OpenQuote(input, i) \notin {"", input[i]}
       /\ ~SplitsAt(input, i)

KeptPositions(input) == { i \in DOMAIN input : KeptAt(input, i) }

\* the k-th smallest element of a set of numbers
RECURSIVE Nth(_, _)
Nth(S, k) ==
    LET m == CHOOSE x \in S : \A y \in S : x <= y
    IN  IF k = 1 THEN m ELSE Nth(S \ {m}, k - 1)

\* the token that holds the k-th character of the concatenated output
RECURSIVE TokenOfChar(_, _)
TokenOfChar(tokens, k) ==
    IF k <= Len(Head(tokens)) THEN 1
    ELSE 1 + TokenOfChar(Tail(tokens), k - Len(Head(tokens)))

\* C30: the tokens of split_with_quotes are never empty; put end to end
\* they are the kept characters of the input in order (quotes that enclose
\* a segment, unescaped backslashes and the whitespace outside quotes are
\* gone; escaped characters and quotes of the other kind are kept); and two
\* neighbouring kept characters lie in one token iff the input is not split
\* between them, so that a quoted segment stays inside one token.
C30_SplitAtUnquotedWhitespace ==
    splitOut.done =>
        LET tokens == splitOut.tokens
            kept == KeptPositions(splitIn)
            n == Cardinality(kept)
        IN  /\ \A t \in DOMAIN tokens : tokens[t] # <<>>
            /\ Flatten(tokens) = [k \in 1 .. n |-> splitIn[Nth(kept, k)]]
            /\ \A k \in 1 .. n - 1 :
                  (TokenOfChar(tokens, k) = TokenOfChar(tokens, k + 1))
                      <=> ~\E i \in Nth(kept, k) .. Nth(kept, k + 1) :
                              SplitsAt(splitIn, i)

\* two tokens, one of them a quoted segment that holds a quote of the other
\* kind, after a run of blanks
C30_Witness ==
    /\ splitOut.done
    /\ Len(splitOut.tokens) = 2
    /\ splitOut.tokens[2] = <<"'">>
    /\ \A i \in DOMAIN splitIn : splitIn[i] # "\\"
    /\ \E i \in 1 .. Len(splitIn) - 2 :
          splitIn[i] = "\"" /\ splitIn[i + 2] = "\""
    /\ \E i \in 1 .. Len(splitIn) - 1 :
          splitIn[i] = " " /\ splitIn[i + 1] = " "

============================================================================
